---- MODULE Spec2Model ----
(***************************************************************************)
(* Authify backend: the traffic ledger (capturedTraffic), the pending      *)
(* response queue, the recursion guard (modifiedRequestIds), the plugin    *)
(* enable/disable controller with its interval timer, and the pure helper  *)
(* functions of utils.ts that compute a row's length and verdict.          *)
(*                                                                         *)
(* Text (a JavaScript string) is a sequence of one-character strings.      *)
(* Every `await` on the platform (sdk.requests.send, sdk.requests.get,     *)
(* query.execute) is a step boundary: the code before it and the code      *)
(* after it are separate atomic actions, and any other callback may run    *)
(* in between.                                                             *)
(***************************************************************************)
EXTENDS Integers, Sequences, FiniteSets, TLC

-----------------------------------------------------------------------------
(* Text helpers: the JavaScript string primitives the code uses.           *)

WhiteSpace ==
  {" ", "\t", "\n", "\r"}

Digits ==
  {"0", "1", "2", "3", "4", "5", "6", "7", "8", "9"}

DigitVal(c) ==
  CASE c = "0" -> 0 [] c = "1" -> 1 [] c = "2" -> 2 [] c = "3" -> 3
    [] c = "4" -> 4 [] c = "5" -> 5 [] c = "6" -> 6 [] c = "7" -> 7
    [] c = "8" -> 8 [] c = "9" -> 9

UpperCase ==
  <<"A", "B", "C", "D", "E", "F", "G", "H", "I", "J", "K", "L", "M",
    "N", "O", "P", "Q", "R", "S", "T", "U", "V", "W", "X", "Y", "Z">>

LowerCase ==
  <<"a", "b", "c", "d", "e", "f", "g", "h", "i", "j", "k", "l", "m",
    "n", "o", "p", "q", "r", "s", "t", "u", "v", "w", "x", "y", "z">>

LowerChar(c) ==
  IF \E i \in 1..26 : UpperCase[i] = c
  THEN LowerCase[CHOOSE i \in 1..26 : UpperCase[i] = c]
  ELSE c

UpperChar(c) ==
  IF \E i \in 1..26 : LowerCase[i] = c
  THEN UpperCase[CHOOSE i \in 1..26 : LowerCase[i] = c]
  ELSE c

\* String.prototype.toLowerCase
ToLowerCase(s) ==
  [i \in 1..Len(s) |-> LowerChar(s[i])]

\* String.prototype.toUpperCase
ToUpperCase(s) ==
  [i \in 1..Len(s) |-> UpperChar(s[i])]

\* s.substring(from) with a 0-based index
SubstringFrom(s, from) ==
  IF from >= Len(s) THEN <<>> ELSE SubSeq(s, from + 1, Len(s))

\* s.substring(from, to) with 0-based indices, from <= to
Substring(s, from, to) ==
  IF from >= to THEN <<>> ELSE SubSeq(s, from + 1, IF to > Len(s) THEN Len(s) ELSE to)

\* s.startsWith(p)
StartsWith(s, p) ==
  /\ Len(s) >= Len(p)
  /\ SubSeq(s, 1, Len(p)) = p

\* s.indexOf(c) for a one-character c: 0-based, -1 when absent
IndexOf(s, c) ==
  IF \E i \in 1..Len(s) : s[i] = c
  THEN (CHOOSE i \in 1..Len(s) : s[i] = c /\ \A j \in 1..(i - 1) : s[j] # c) - 1
  ELSE -1

\* s.trim()
Trim(s) ==
  LET keep == {i \in 1..Len(s) : s[i] \notin WhiteSpace}
  IN  IF keep = {} THEN <<>>
      ELSE LET lo == CHOOSE i \in keep : \A j \in keep : i <= j
               hi == CHOOSE i \in keep : \A j \in keep : j <= i
           IN  SubSeq(s, lo, hi)

RECURSIVE Split(_, _)
\* s.split(c) for a one-character separator c: always at least one piece
Split(s, c) ==
  IF s = <<>> THEN << <<>> >>
  ELSE LET rest == Split(Tail(s), c)
       IN  IF Head(s) = c
           THEN << <<>> >> \o rest
           ELSE << <<Head(s)>> \o Head(rest) >> \o Tail(rest)

\* s.split(/\r?\n/): a piece that a line feed ends loses one trailing
\* carriage return; the last piece keeps its own
SplitLines(s) ==
  LET pieces == Split(s, "\n")
      strip(p) == IF p # <<>> /\ p[Len(p)] = "\r" THEN SubSeq(p, 1, Len(p) - 1) ELSE p
  IN  [i \in 1..Len(pieces) |-> IF i < Len(pieces) THEN strip(pieces[i]) ELSE pieces[i]]

RECURSIVE Join(_, _)
\* lines.join(sep)
Join(lines, sep) ==
  IF lines = <<>> THEN <<>>
  ELSE IF Len(lines) = 1 THEN lines[1]
  ELSE lines[1] \o sep \o Join(Tail(lines), sep)

RECURSIVE CollapseWhiteSpace(_)
\* s.replace(/\s+/g, ' ')
CollapseWhiteSpace(s) ==
  IF s = <<>> THEN <<>>
  ELSE IF Head(s) \in WhiteSpace
       THEN IF Len(s) >= 2 /\ s[2] \in WhiteSpace
            THEN CollapseWhiteSpace(Tail(s))
            ELSE <<" ">> \o CollapseWhiteSpace(Tail(s))
       ELSE <<Head(s)>> \o CollapseWhiteSpace(Tail(s))

RECURSIVE DigitRun(_)
\* the longest prefix of s made of decimal digits
DigitRun(s) ==
  IF s # <<>> /\ Head(s) \in Digits THEN <<Head(s)>> \o DigitRun(Tail(s)) ELSE <<>>

RECURSIVE DigitsValue(_, _)
DigitsValue(ds, acc) ==
  IF ds = <<>> THEN acc ELSE DigitsValue(Tail(ds), 10 * acc + DigitVal(Head(ds)))

RECURSIVE SkipWhiteSpace(_)
SkipWhiteSpace(s) ==
  IF s # <<>> /\ Head(s) \in WhiteSpace THEN SkipWhiteSpace(Tail(s)) ELSE s

\* parseInt(s, 10): leading white space and one sign are skipped, then the
\* longest digit run is read; no digit there gives NaN
ParseInt(s) ==
  LET t    == SkipWhiteSpace(s)
      neg  == t # <<>> /\ Head(t) = "-"
      u    == IF t # <<>> /\ Head(t) \in {"-", "+"} THEN Tail(t) ELSE t
      run  == DigitRun(u)
  IN  IF run = <<>> THEN [nan |-> TRUE, val |-> 0]
      ELSE [nan |-> FALSE, val |-> IF neg THEN 0 - DigitsValue(run, 0) ELSE DigitsValue(run, 0)]

-----------------------------------------------------------------------------
(* utils.ts: content length, body, Location header and the comparator.     *)

\* A platform response object: getCode(), getHeaders() (name -> values, in
\* Object.entries order) and getRaw()?.toText() ?? "".  NoResponse is the
\* JavaScript undefined.
NoResponse ==
  [kind |-> "undefined"]

Response(code, headers, raw) ==
  [kind |-> "response", code |-> code, headers |-> headers, raw |-> raw]

ContentLengthName ==
  <<"c", "o", "n", "t", "e", "n", "t", "-", "l", "e", "n", "g", "t", "h">>

LocationPrefix ==
  <<"l", "o", "c", "a", "t", "i", "o", "n", ":">>

\* the header loop of getResponseContentLength: the first content-length
\* header whose first value is non-empty and parses gives the length
HeaderContentLength(headers) ==
  LET ok(i) == /\ ToLowerCase(headers[i].name) = ContentLengthName
               /\ Len(headers[i].values) > 0
               /\ headers[i].values[1] # <<>>
               /\ ~ParseInt(headers[i].values[1]).nan
      hits  == {i \in 1..Len(headers) : ok(i)}
  IN  IF hits = {} THEN [nan |-> TRUE, val |-> 0]
      ELSE ParseInt(headers[CHOOSE i \in hits : \A j \in hits : i <= j].values[1])

\* respRaw.match(/content-length:\s*(\d+)/i): the leftmost match in the whole
\* raw text, header section or body
RawContentLength(respRaw) ==
  LET low    == ToLowerCase(respRaw)
      pre    == ContentLengthName \o <<":">>
      after(i) == SkipWhiteSpace(SubstringFrom(respRaw, i - 1 + Len(pre)))
      ok(i)  == /\ StartsWith(SubstringFrom(low, i - 1), pre)
                /\ DigitRun(after(i)) # <<>>
      hits   == {i \in 1..Len(respRaw) : ok(i)}
  IN  IF hits = {} THEN [nan |-> TRUE, val |-> 0]
      ELSE LET i == CHOOSE k \in hits : \A j \in hits : k <= j
           IN  [nan |-> FALSE, val |-> DigitsValue(DigitRun(after(i)), 0)]

\* the separator both getResponseContentLength and extractResponseBody look
\* for: the first line that is truthy (non-empty) and trims to empty;
\* 0-based, -1 when there is none
SeparatorIndex(lines) ==
  LET hits == {i \in 1..Len(lines) : lines[i] # <<>> /\ Trim(lines[i]) = <<>>}
  IN  IF hits = {} THEN -1
      ELSE (CHOOSE i \in hits : \A j \in hits : i <= j) - 1

getResponseContentLength(resp, respRaw) ==
  IF respRaw = <<>> THEN 0
  ELSE IF resp.kind = "response" /\ ~HeaderContentLength(resp.headers).nan
       THEN HeaderContentLength(resp.headers).val
  ELSE IF ~RawContentLength(respRaw).nan
       THEN RawContentLength(respRaw).val
  ELSE LET lines          == SplitLines(respRaw)
           headerEndIndex == SeparatorIndex(lines)
       IN  IF headerEndIndex = -1 THEN 0
           ELSE Len(Join(SubSeq(lines, headerEndIndex + 2, Len(lines)), <<"\r", "\n">>))

extractResponseBody(responseRaw) ==
  IF responseRaw = <<>> THEN <<>>
  ELSE LET lines          == SplitLines(responseRaw)
           bodyStartIndex == IF SeparatorIndex(lines) = -1 THEN -1
                             ELSE SeparatorIndex(lines) + 1
       IN  IF bodyStartIndex = -1 \/ bodyStartIndex >= Len(lines) THEN <<>>
           ELSE Join(SubSeq(lines, bodyStartIndex + 1, Len(lines)), <<"\r", "\n">>)

RECURSIVE LocationScan(_)
\* the loop of getLocationHeader over the lines that are left
LocationScan(lines) ==
  IF lines = <<>> THEN [found |-> FALSE, value |-> <<>>]
  ELSE IF Head(lines) = <<>> THEN LocationScan(Tail(lines))
  ELSE IF Trim(Head(lines)) = <<>> THEN [found |-> FALSE, value |-> <<>>]
  ELSE IF StartsWith(ToLowerCase(Trim(Head(lines))), LocationPrefix)
       THEN [found |-> TRUE, value |-> Trim(SubstringFrom(Trim(Head(lines)), 9))]
  ELSE LocationScan(Tail(lines))

getLocationHeader(responseRaw) ==
  IF responseRaw = <<>> THEN [found |-> FALSE, value |-> <<>>]
  ELSE LocationScan(SplitLines(responseRaw))

\* compareResponses testing the redirect range on the original code alone
compareResponsesOriginalRedirect(originalCode, originalLength, modifiedCode, modifiedLength, originalRespRaw, modifiedRespRaw) ==
  IF originalCode # modifiedCode
  THEN LET originalLocation == getLocationHeader(originalRespRaw)
           modifiedLocation == getLocationHeader(modifiedRespRaw)
       IN  IF /\ originalCode >= 300 /\ originalCode < 400
              /\ originalLocation.found /\ originalLocation.value # <<>>
              /\ modifiedLocation.found /\ modifiedLocation.value # <<>>
              /\ originalLocation.value = modifiedLocation.value
           THEN "same"
           ELSE "different"
  ELSE LET originalContent == Trim(CollapseWhiteSpace(extractResponseBody(originalRespRaw)))
           modifiedContent == Trim(CollapseWhiteSpace(extractResponseBody(modifiedRespRaw)))
       IN  IF originalLength = modifiedLength /\ originalContent = modifiedContent
           THEN "same"
           ELSE IF originalLength = modifiedLength
           THEN "similar"
           ELSE "different"

\* compareResponses giving no verdict when a raw text is missing
compareResponsesNeedsRaw(originalCode, originalLength, modifiedCode, modifiedLength, originalRespRaw, modifiedRespRaw) ==
  IF originalRespRaw = <<>> \/ modifiedRespRaw = <<>> THEN "unknown"
  ELSE IF originalCode # modifiedCode \/ originalLength # modifiedLength THEN "different"
  ELSE "same"

compareResponses(originalCode, originalLength, modifiedCode, modifiedLength, originalRespRaw, modifiedRespRaw) ==
  IF originalCode # modifiedCode
  THEN LET originalLocation == getLocationHeader(originalRespRaw)
           modifiedLocation == getLocationHeader(modifiedRespRaw)
       IN  IF /\ originalCode >= 300 /\ originalCode < 400
              /\ modifiedCode >= 300 /\ modifiedCode < 400
              /\ originalLocation.found /\ originalLocation.value # <<>>
              /\ modifiedLocation.found /\ modifiedLocation.value # <<>>
              /\ originalLocation.value = modifiedLocation.value
           THEN "same"
           ELSE "different"
  ELSE LET originalContent == Trim(CollapseWhiteSpace(extractResponseBody(originalRespRaw)))
           modifiedContent == Trim(CollapseWhiteSpace(extractResponseBody(modifiedRespRaw)))
       IN  IF originalLength = modifiedLength /\ originalContent = modifiedContent
           THEN "same"
           ELSE IF originalLength = modifiedLength /\ originalContent # modifiedContent
           THEN "similar"
           ELSE "different"

-----------------------------------------------------------------------------
(* modifyAndResendRequest: the part before the dispatch and the part after *)

\* A JavaScript object used as a map, in Object.entries order: assigning an
\* existing key overwrites its value in place, a new key goes last
ObjectSet(obj, name, value) ==
  IF \E i \in 1..Len(obj) : obj[i].name = name
  THEN [i \in 1..Len(obj) |-> IF obj[i].name = name
                              THEN [name |-> name, value |-> value]
                              ELSE obj[i]]
  ELSE Append(obj, [name |-> name, value |-> value])

\* obj[name], <<>> standing for undefined as well as for the empty string
\* (the code only tests the result for truthiness)
ObjectGet(obj, name) ==
  IF \E i \in 1..Len(obj) : obj[i].name = name
  THEN obj[CHOOSE i \in 1..Len(obj) : obj[i].name = name].value
  ELSE <<>>

\* the first 0-based index i >= 1 of a line that is empty or trims to empty,
\* lines.length when there is none
HeaderEndIndex(lines) ==
  LET hits == {i \in 2..Len(lines) : Trim(lines[i]) = <<>>}
  IN  IF hits = {} THEN Len(lines)
      ELSE (CHOOSE i \in hits : \A j \in hits : i <= j) - 1

RECURSIVE ParseHeaderLines(_, _, _)
\* "Name: value" lines into an object; a line with no colon or with the colon
\* first is skipped.  trimLine is TRUE for request lines (the code trims the
\* line before looking for the colon) and FALSE for auth lines (it does not)
ParseHeaderLines(lines, trimLine, obj) ==
  IF lines = <<>> THEN obj
  ELSE LET line       == IF trimLine THEN Trim(Head(lines)) ELSE Head(lines)
           colonIndex == IndexOf(line, ":")
       IN  IF Head(lines) # <<>> /\ colonIndex > 0
           THEN ParseHeaderLines(Tail(lines), trimLine,
                  ObjectSet(obj, Trim(Substring(line, 0, colonIndex)),
                                 Trim(SubstringFrom(line, colonIndex + 1))))
           ELSE ParseHeaderLines(Tail(lines), trimLine, obj)

\* getStoredAuthHeaders().split('\n').filter(line => line.trim()), parsed
ParseAuthHeaders(authText) ==
  ParseHeaderLines(SelectSeq(Split(authText, "\n"), LAMBDA l : Trim(l) # <<>>), FALSE, <<>>)

RECURSIVE MergeHeaders(_, _)
MergeHeaders(headers, auth) ==
  IF auth = <<>> THEN headers
  ELSE MergeHeaders(ObjectSet(headers, Head(auth).name, Head(auth).value), Tail(auth))

RECURSIVE HeaderText(_)
HeaderText(headers) ==
  IF headers = <<>> THEN <<>>
  ELSE Head(headers).name \o <<":", " ">> \o Head(headers).value \o <<"\r", "\n">>
       \o HeaderText(Tail(headers))

HostKey ==
  <<"H", "o", "s", "t">>

ProtoKey ==
  <<"X", "-", "F", "o", "r", "w", "a", "r", "d", "e", "d", "-", "P", "r", "o", "t", "o">>

HttpsText ==
  <<"h", "t", "t", "p", "s">>

\* modifyAndResendRequest up to `await sdk.requests.send(spec)`.  sends says
\* whether the dispatch is reached; when it is not, the function returns
\* code 0, length 0, verdict unknown and the modifiedReqRaw given here.
PrepareModifiedRequest(authText, originalReqRaw) ==
  IF Trim(authText) = <<>>
  THEN [sends |-> FALSE, modifiedReqRaw |-> <<>>]
  ELSE
    LET lines           == Split(originalReqRaw, "\n")
        headerEndIndex  == HeaderEndIndex(lines)
        originalHeaders == ParseHeaderLines(SubSeq(lines, 2, headerEndIndex), TRUE, <<>>)
        modifiedHeaders == MergeHeaders(originalHeaders, ParseAuthHeaders(authText))
        requestLine     == lines[1]
        body            == IF headerEndIndex < Len(lines)
                           THEN Join(SubSeq(lines, headerEndIndex + 2, Len(lines)), <<"\n">>)
                           ELSE <<>>
        modifiedReqRaw  == requestLine \o <<"\r", "\n">> \o HeaderText(modifiedHeaders)
                           \o <<"\r", "\n">> \o body
        requestParts    == Split(requestLine, " ")
        host            == IF ObjectGet(modifiedHeaders, HostKey) # <<>>
                           THEN ObjectGet(modifiedHeaders, HostKey)
                           ELSE ObjectGet(modifiedHeaders, ToLowerCase(HostKey))
        protocol        == IF ObjectGet(modifiedHeaders, ProtoKey) # <<>>
                           THEN ObjectGet(modifiedHeaders, ProtoKey)
                           ELSE HttpsText
    IN  IF Len(requestParts) < 3 \/ host = <<>>
        THEN [sends |-> FALSE, modifiedReqRaw |-> modifiedReqRaw]
        ELSE [sends |-> TRUE, modifiedReqRaw |-> modifiedReqRaw,
              spec |-> [url     |-> protocol \o <<":", "/", "/">> \o host \o requestParts[2],
                        method  |-> requestParts[1],
                        headers |-> SelectSeq(modifiedHeaders,
                                      LAMBDA h : ToLowerCase(h.name) # ToLowerCase(HostKey)),
                        body    |-> IF Trim(body) # <<>> THEN body ELSE <<>>]]

\* a result that reports the missing response as a difference
NotSentDiffers(modifiedReqRaw) ==
  [code |-> 0, length |-> 0, modifiedReqRaw |-> modifiedReqRaw,
   modifiedRespRaw |-> <<>>, comparison |-> "different"]

\* What modifyAndResendRequest returns when it stops before the dispatch
NotSent(modifiedReqRaw) ==
  [code |-> 0, length |-> 0, modifiedReqRaw |-> modifiedReqRaw,
   modifiedRespRaw |-> <<>>, comparison |-> "unknown"]

\* parseInt(originalLines[0].split(' ')[1] || '0') || 0
OriginalCode(originalRespRaw) ==
  LET first == Split(originalRespRaw, "\n")[1]
      parts == Split(first, " ")
      token == IF Len(parts) >= 2 /\ parts[2] # <<>> THEN parts[2] ELSE <<"0">>
  IN  IF first = <<>> \/ ParseInt(token).nan THEN 0 ELSE ParseInt(token).val

\* modifyAndResendRequest after the dispatch.  outcome is "throw" (send
\* rejected: the catch block), "none" (no result or no response) or a
\* response object
FinishModifiedRequest(modifiedReqRaw, originalRespRaw, outcome) ==
  IF outcome.kind = "throw" THEN NotSent(<<>>)
  ELSE IF outcome.kind = "none" THEN NotSent(modifiedReqRaw)
  ELSE LET modifiedRespRaw == outcome.raw
           modifiedCode    == outcome.code
           modifiedLength  == getResponseContentLength(outcome, modifiedRespRaw)
           originalCode    == OriginalCode(originalRespRaw)
           originalLength  == getResponseContentLength(NoResponse, originalRespRaw)
       IN  [code |-> modifiedCode, length |-> modifiedLength,
            modifiedReqRaw |-> modifiedReqRaw, modifiedRespRaw |-> modifiedRespRaw,
            comparison |-> compareResponses(originalCode, originalLength, modifiedCode,
                                            modifiedLength, originalRespRaw, modifiedRespRaw)]

-----------------------------------------------------------------------------
(* Bounds and the traffic the platform delivers                             *)

\* request identities 1..NIds
NIds ==
  2

\* stands for the ledger limit of 500 rows (capturedTraffic.slice(0, 500))
LedgerCap ==
  2

\* Spec: rows the ledger may hold (the manual path does not trim, so this
\* is above LedgerCap) and asynchronous calls in progress at once
MaxRows ==
  3

MaxInFlight ==
  1

\* RaceSpec: the same two bounds, traded the other way
RaceMaxRows ==
  1

RaceMaxInFlight ==
  2

\* interval timer handles the runtime can hand out
MaxTimers ==
  2

Ids ==
  1..NIds

\* one identity more, for the runs in which every request is intercepted once
FairIds ==
  1..(NIds + 1)

\* a stored request whose Host header is spelled HOST; only manual
\* processing is run on it
HostlessId ==
  NIds + 2

TableIds ==
  FairIds \cup {HostlessId}

NoTimer ==
  0

IdChar(id) ==
  CASE id = 1 -> "1" [] id = 2 -> "2" [] id = 3 -> "3" [] OTHER -> "4"

\* The request with identity id as the platform presents it: getMethod(),
\* the hostname and path of getUrl(), getRaw().toText() and toSpecRaw().
\* Even identities are POSTs with a body, odd ones GETs.
RequestOf(id) ==
  LET post == id % 2 = 0
      meth == IF post THEN <<"P", "O", "S", "T">> ELSE <<"G", "E", "T">>
      path == <<"/", IdChar(id)>>
      host == IF id = HostlessId THEN ToUpperCase(HostKey) ELSE HostKey
  IN  [id       |-> id,
       method   |-> meth,
       hostname |-> <<"h">>,
       path     |-> path,
       raw      |-> meth \o <<" ">> \o path \o <<" ", "H", "\r", "\n">>
                    \o host \o <<":", " ", "h", "\r", "\n">>
                    \o <<"A", ":", " ", "u", "\r", "\n", "\r", "\n">>
                    \o (IF post THEN <<"b", "=", IdChar(id)>> ELSE <<>>),
       specRaw  |-> <<"spec", id>>]

\* The response the server gave to request id.  Odd identities: a 200 whose
\* body follows a blank line holding one space; even ones: a 301 redirect.
SourceResponse(id) ==
  IF id % 2 = 1
  THEN Response(200, <<>>,
         <<"H", " ", "2", "0", "0", "\n", " ", "\n", "o", "k", IdChar(id)>>)
  ELSE Response(301, <<>>,
         <<"H", " ", "3", "0", "1", "\r", "\n", "L", "o", "c", "a", "t", "i", "o", "n",
           ":", " ", "/", "l", "\r", "\n", "\r", "\n">>)

\* The response the server gives to the modified request for id.  Odd
\* identities: a 200 of the same length with another body; even ones: a 302
\* to the same location.
ModifiedResponse(id) ==
  IF id % 2 = 1
  THEN Response(200, <<>>,
         <<"H", " ", "2", "0", "0", "\n", " ", "\n", "n", "o", IdChar(id)>>)
  ELSE Response(302, <<>>,
         <<"H", " ", "3", "0", "2", "\r", "\n", "L", "o", "c", "a", "t", "i", "o", "n",
           ":", " ", "/", "l", "\r", "\n", "\r", "\n">>)

\* a response object whose getRaw() gives nothing yet
EmptyRaw(resp) ==
  Response(resp.code, resp.headers, <<>>)

\* what an intercepted event may carry as its response
InterceptedResponses(id) ==
  {NoResponse, SourceResponse(id)}

\* how sdk.requests.send may end: with the response, or without one (odd
\* identities: the call is rejected; even ones: no response in the result)
DispatchOutcomes(id) ==
  {IF id % 2 = 1 THEN [kind |-> "throw"] ELSE [kind |-> "none"], ModifiedResponse(id)}

\* the auth header texts the configuration may hold: none, one header with
\* another value than the requests carry
AuthTexts ==
  {<<>>, <<"A", ":", " ", "v">>}

\* and, where the gate is looked at, the very headers of the requests
GateAuthTexts ==
  AuthTexts \cup {<<"H", "o", "s", "t", ":", " ", "h", "\n", "A", ":", " ", "u">>}

\* filter.ts, isPluginGeneratedRequest(sdk, req, authHeaders): the header set
\* of the request exactly matches the configured auth headers
isPluginGeneratedRequest(reqRaw, authText) ==
  LET lines   == Split(reqRaw, "\n")
      headers == ParseHeaderLines(SubSeq(lines, 2, HeaderEndIndex(lines)), TRUE, <<>>)
      auth    == ParseAuthHeaders(authText)
  IN  /\ auth # <<>>
      /\ {auth[i] : i \in 1..Len(auth)} = {headers[i] : i \in 1..Len(headers)}

\* what the rest of the gate finds for an intercepted request: the verdict of
\* shouldFilterRequest, and whether a scope is selected and what
\* sdk.requests.inScope answers
Gates ==
  [filtered : BOOLEAN, scope : {"none", "in", "out", "throws"}]

\* The pure functions above, tabulated once over the traffic of the model
\* (the values are those of the operators; the tables only save recomputation)
RequestTable ==
  [id \in TableIds |-> RequestOf(id)]

PreparedTable ==
  [a \in GateAuthTexts |-> [id \in TableIds |-> PrepareModifiedRequest(a, RequestOf(id).raw)]]

ModifiedRequestTexts ==
  {PreparedTable[a][id].modifiedReqRaw : a \in GateAuthTexts, id \in TableIds}

ResponseTexts ==
  {<<>>} \cup {SourceResponse(id).raw : id \in TableIds}

AllDispatchOutcomes ==
  UNION {DispatchOutcomes(id) : id \in TableIds}

FinishTable ==
  [m \in ModifiedRequestTexts |-> [r \in ResponseTexts |-> [o \in AllDispatchOutcomes |->
     FinishModifiedRequest(m, r, o)]]]

LengthTable ==
  [id \in TableIds |-> getResponseContentLength(SourceResponse(id), SourceResponse(id).raw)]

GeneratedTable ==
  [a \in GateAuthTexts |-> [id \in TableIds |-> isPluginGeneratedRequest(RequestOf(id).raw, a)]]

\* the responses a fetch may return with raw text, and the modified sides a
\* row may hold
FetchedResponses ==
  {SourceResponse(id) : id \in TableIds}

ModifiedSides ==
  {[code   |-> FinishTable[m][r][o].code,
    length |-> FinishTable[m][r][o].length,
    raw    |-> FinishTable[m][r][o].modifiedRespRaw] :
     m \in ModifiedRequestTexts, r \in ResponseTexts, o \in AllDispatchOutcomes}

FetchedLengthTable ==
  [resp \in FetchedResponses |-> getResponseContentLength(resp, resp.raw)]

CompareTable ==
  [resp \in FetchedResponses |-> [m \in ModifiedSides |->
     compareResponses(resp.code, FetchedLengthTable[resp], m.code, m.length,
                      resp.raw, m.raw)]]

-----------------------------------------------------------------------------
(* The plugin state of index.ts and the callbacks in progress               *)

VARIABLES
  isPluginEnabled,        \* let isPluginEnabled
  capturedTraffic,        \* let capturedTraffic: Array<Row>, newest first
  modifiedRequestIds,     \* let modifiedRequestIds: Set<string>
  pendingResponseQueue,   \* let pendingResponseQueue: Set<string>, in insertion order
  responseUpdateInterval, \* let responseUpdateInterval: the handle, NoTimer for undefined
  activeTimers,           \* the interval timers the runtime is running
  storedAuthHeaders,      \* auth-headers.ts: let storedAuthHeaders
  intercepts,             \* handleInterceptedResponse calls awaiting sdk.requests.send
  histories,              \* processRequestFromHistory calls awaiting sdk.requests.send
  ticks,                  \* processPendingResponses calls awaiting sdk.requests.get
  enableCalls,            \* setPluginEnabled(true) calls awaiting query.execute
  clearCalls              \* clearTraffic calls awaiting query.execute

\* a call of one of the pure functions: its arguments and, once it has
\* returned, its result
VARIABLE probe

\* the tableChanged events sent to the frontend by sdk.api.send and not yet
\* received there, oldest first
VARIABLE tableChanged

\* App.vue: the switch of the frontend, whose watcher calls setPluginEnabled
\* with the new value
VARIABLE isEnabled

\* scopes.ts: the identifier of the selected scope and the scope it stands for
VARIABLES selectedScope, selectedScopeStructure

vars ==
  <<isPluginEnabled, capturedTraffic, modifiedRequestIds, pendingResponseQueue,
    responseUpdateInterval, activeTimers, storedAuthHeaders,
    intercepts, histories, ticks, enableCalls, clearCalls>>

Range(seq) ==
  {seq[i] : i \in 1..Len(seq)}

\* Set.prototype.add on a set kept in insertion order
SetAdd(seq, x) ==
  IF x \in Range(seq) THEN seq ELSE Append(seq, x)

\* Set.prototype.delete
SetDelete(seq, x) ==
  SelectSeq(seq, LAMBDA y : y # x)

PendingSet ==
  Range(pendingResponseQueue)

LedgerIds ==
  {capturedTraffic[i].id : i \in 1..Len(capturedTraffic)}

InFlight ==
  Cardinality(intercepts) + Cardinality(histories) + Cardinality(ticks)
    + enableCalls + clearCalls

MakeRow(req, code, length, respRaw, result) ==
  [id              |-> req.id,
   method          |-> req.method,
   hostname        |-> req.hostname,
   path            |-> req.path,
   code            |-> code,
   length          |-> length,
   modifiedCode    |-> result.code,
   modifiedLength  |-> result.length,
   reqRaw          |-> req.raw,
   respRaw         |-> respRaw,
   modifiedReqRaw  |-> result.modifiedReqRaw,
   modifiedRespRaw |-> result.modifiedRespRaw,
   reqSpecRaw      |-> req.specRaw,
   comparison      |-> result.comparison]

\* an insert that trims from the front: slice(-500) for slice(0, 500)
InterceptInsertKeepsOldest(traffic, row) ==
  LET grown == <<row>> \o traffic
  IN  IF Len(grown) > LedgerCap
      THEN SubSeq(grown, Len(grown) - LedgerCap + 1, Len(grown))
      ELSE grown

\* handleInterceptedResponse: prepend, then keep the first LedgerCap rows
InterceptInsert(traffic, row) ==
  LET grown == <<row>> \o traffic
  IN  IF Len(grown) > LedgerCap THEN SubSeq(grown, 1, LedgerCap) ELSE grown

\* processRequestFromHistory: prepend
HistoryInsert(traffic, row) ==
  <<row>> \o traffic

\* a start without the "Already running" return: the handle is overwritten
startResponseProcessingUnguarded(interval, timers) ==
  IF \A k \in 1..MaxTimers : k \in timers
  THEN [interval |-> interval, timers |-> timers]
  ELSE LET h == CHOOSE k \in 1..MaxTimers :
                  k \notin timers /\ \A j \in 1..MaxTimers : j \notin timers => k <= j
       IN  [interval |-> h, timers |-> timers \cup {h}]

\* startResponseProcessing: the handle and the timers afterwards
startResponseProcessing(interval, timers) ==
  IF interval # NoTimer
  THEN [interval |-> interval, timers |-> timers]
  ELSE LET h == CHOOSE k \in 1..MaxTimers :
                  k \notin timers /\ \A j \in 1..MaxTimers : j \notin timers => k <= j
       IN  [interval |-> h, timers |-> timers \cup {h}]

\* stopResponseProcessing
stopResponseProcessing(interval, timers) ==
  IF interval # NoTimer
  THEN [interval |-> NoTimer, timers |-> timers \ {interval}]
  ELSE [interval |-> interval, timers |-> timers]

\* selectedScopeStructure when it is undefined
NoScope ==
  [kind |-> "undefined", allowlist |-> <<>>, denylist |-> <<>>]

\* index.ts and auth-headers.ts as loaded
Loaded ==
  /\ isPluginEnabled = FALSE
  /\ capturedTraffic = <<>>
  /\ modifiedRequestIds = {}
  /\ pendingResponseQueue = <<>>
  /\ responseUpdateInterval = NoTimer
  /\ activeTimers = {}
  /\ storedAuthHeaders = <<>>
  /\ intercepts = {}
  /\ histories = {}
  /\ ticks = {}
  /\ enableCalls = 0
  /\ clearCalls = 0
  /\ tableChanged = <<>>
  /\ isEnabled = FALSE
  /\ selectedScope = <<>>
  /\ selectedScopeStructure = NoScope

\* no pure function is being called
NoProbe ==
  [op |-> "none"]

Init ==
  /\ Loaded
  /\ probe = NoProbe

-----------------------------------------------------------------------------
(* The intercept path: handleInterceptedResponse and processNewRequest      *)

\* The row data processNewRequest reads off the intercepted pair
Captured(id, resp) ==
  LET respRaw == IF resp.kind = "response" THEN resp.raw ELSE <<>>
  IN  [id      |-> id,
       code    |-> IF resp.kind = "response" THEN resp.code ELSE 0,
       respRaw |-> respRaw,
       length  |-> IF respRaw = <<>> THEN getResponseContentLength(resp, respRaw)
                   ELSE LengthTable[id]]

\* "If response is empty or missing, add to queue for later processing"
QueueIfMissing(queue, id, resp) ==
  IF resp.kind = "undefined" \/ resp.raw = <<>> THEN SetAdd(queue, id) ELSE queue

\* a guard that does not look at the set of modified identities
ShouldModifyAgain(id) ==
  /\ isPluginEnabled
  /\ Trim(storedAuthHeaders) # <<>>

\* the guard of the modification block of processNewRequest
ShouldModify(id) ==
  /\ isPluginEnabled
  /\ Trim(storedAuthHeaders) # <<>>
  /\ id \notin modifiedRequestIds

\* a gate without the plugin-generated check
AcceptsUnchecked(id, gate) ==
  /\ ~gate.filtered
  /\ gate.scope \in {"none", "in"}

\* the gate of processNewRequest, in the order of the code: not
\* plugin-generated, not filtered, and in scope if a scope is selected
Accepts(id, gate) ==
  /\ ~GeneratedTable[storedAuthHeaders][id]
  /\ ~gate.filtered
  /\ gate.scope \in {"none", "in"}

\* An intercepted pair the gate rejects (plugin-generated, filtered or out of
\* scope): processNewRequest returns null and nothing changes
InterceptRejected(id) ==
  /\ isPluginEnabled
  /\ \E gate \in Gates : ~Accepts(id, gate)
  /\ UNCHANGED vars

\* An accepted pair that is not re-sent (no auth headers, or the identity is
\* in the recursion guard), or whose modified request cannot be built: the
\* row is inserted in the same turn
InterceptUnmodified(id, resp) ==
  LET cap  == Captured(id, resp)
      prep == PreparedTable[storedAuthHeaders][id]
  IN  /\ isPluginEnabled
      /\ \E gate \in Gates : Accepts(id, gate)
      /\ ~ShouldModify(id) \/ ~prep.sends
      /\ pendingResponseQueue' = QueueIfMissing(pendingResponseQueue, id, resp)
      /\ modifiedRequestIds' = IF ShouldModify(id) THEN modifiedRequestIds \cup {id}
                               ELSE modifiedRequestIds
      /\ capturedTraffic' = InterceptInsert(capturedTraffic,
           MakeRow(RequestTable[id], cap.code, cap.length, cap.respRaw,
                   NotSent(IF ShouldModify(id) THEN prep.modifiedReqRaw ELSE <<>>)))
      /\ UNCHANGED <<isPluginEnabled, responseUpdateInterval, activeTimers,
                     storedAuthHeaders, intercepts, histories, ticks,
                     enableCalls, clearCalls>>

\* An accepted pair that is re-sent: the callback queues the identity if the
\* response is missing, marks it in the recursion guard and awaits the dispatch
InterceptDispatch(id, resp) ==
  LET cap  == Captured(id, resp)
      prep == PreparedTable[storedAuthHeaders][id]
      call == [id |-> id, code |-> cap.code, length |-> cap.length,
               respRaw |-> cap.respRaw, modifiedReqRaw |-> prep.modifiedReqRaw]
  IN  /\ isPluginEnabled
      /\ \E gate \in Gates : Accepts(id, gate)
      /\ ShouldModify(id)
      /\ prep.sends
      /\ call \notin intercepts
      /\ pendingResponseQueue' = QueueIfMissing(pendingResponseQueue, id, resp)
      /\ modifiedRequestIds' = modifiedRequestIds \cup {id}
      /\ intercepts' = intercepts \cup {call}
      /\ UNCHANGED <<isPluginEnabled, capturedTraffic, responseUpdateInterval,
                     activeTimers, storedAuthHeaders, histories, ticks,
                     enableCalls, clearCalls>>

\* The dispatch of an intercept callback ends: the row is built and inserted
InterceptResume(call, outcome) ==
  /\ call \in intercepts
  /\ capturedTraffic' = InterceptInsert(capturedTraffic,
       MakeRow(RequestTable[call.id], call.code, call.length, call.respRaw,
               FinishTable[call.modifiedReqRaw][call.respRaw][outcome]))
  /\ intercepts' = intercepts \ {call}
  /\ UNCHANGED <<isPluginEnabled, modifiedRequestIds, pendingResponseQueue,
                 responseUpdateInterval, activeTimers, storedAuthHeaders,
                 histories, ticks, enableCalls, clearCalls>>

-----------------------------------------------------------------------------
(* The manual path: processRequestFromHistory                               *)

\* sdk.requests.get found no request or no response, or the auth header text
\* is blank: an Error is returned and nothing changes
HistoryError(id) ==
  UNCHANGED vars

\* a manual call that returns early while the plugin is disabled, as
\* handleInterceptedResponse does
HistoryDispatchWhenEnabled(id) ==
  LET resp == SourceResponse(id)
      prep == PreparedTable[storedAuthHeaders][id]
      call == [id |-> id, code |-> resp.code,
               length |-> LengthTable[id],
               respRaw |-> resp.raw, modifiedReqRaw |-> prep.modifiedReqRaw]
  IN  /\ isPluginEnabled
      /\ Trim(storedAuthHeaders) # <<>>
      /\ prep.sends
      /\ call \notin histories
      /\ histories' = histories \cup {call}
      /\ UNCHANGED <<isPluginEnabled, capturedTraffic, modifiedRequestIds,
                     pendingResponseQueue, responseUpdateInterval, activeTimers,
                     storedAuthHeaders, intercepts, ticks, enableCalls,
                     clearCalls>>

\* The request and its response were fetched and auth headers are configured:
\* the modified request is built and the call awaits the dispatch
HistoryDispatch(id) ==
  LET resp == SourceResponse(id)
      prep == PreparedTable[storedAuthHeaders][id]
      call == [id |-> id, code |-> resp.code,
               length |-> LengthTable[id],
               respRaw |-> resp.raw, modifiedReqRaw |-> prep.modifiedReqRaw]
  IN  /\ Trim(storedAuthHeaders) # <<>>
      /\ prep.sends
      /\ call \notin histories
      /\ histories' = histories \cup {call}
      /\ UNCHANGED <<isPluginEnabled, capturedTraffic, modifiedRequestIds,
                     pendingResponseQueue, responseUpdateInterval, activeTimers,
                     storedAuthHeaders, intercepts, ticks, enableCalls,
                     clearCalls>>

\* The request and its response were fetched and auth headers are configured,
\* but modifyAndResendRequest returns before the dispatch (request line or
\* Host header not found): its result goes into a row all the same, the row
\* is prepended and the identity marked in the recursion guard
HistoryNotSent(id) ==
  LET resp == SourceResponse(id)
      prep == PreparedTable[storedAuthHeaders][id]
  IN  /\ Trim(storedAuthHeaders) # <<>>
      /\ ~prep.sends
      /\ capturedTraffic' = HistoryInsert(capturedTraffic,
           MakeRow(RequestTable[id], resp.code, LengthTable[id], resp.raw,
                   NotSent(prep.modifiedReqRaw)))
      /\ modifiedRequestIds' = modifiedRequestIds \cup {id}
      /\ UNCHANGED <<isPluginEnabled, pendingResponseQueue, responseUpdateInterval,
                     activeTimers, storedAuthHeaders, intercepts, histories, ticks,
                     enableCalls, clearCalls>>

\* The dispatch of a manual call ends: the row is prepended and the identity
\* marked in the recursion guard
HistoryResume(call, outcome) ==
  /\ call \in histories
  /\ capturedTraffic' = HistoryInsert(capturedTraffic,
       MakeRow(RequestTable[call.id], call.code, call.length, call.respRaw,
               FinishTable[call.modifiedReqRaw][call.respRaw][outcome]))
  /\ modifiedRequestIds' = modifiedRequestIds \cup {call.id}
  /\ histories' = histories \ {call}
  /\ UNCHANGED <<isPluginEnabled, pendingResponseQueue, responseUpdateInterval,
                 activeTimers, storedAuthHeaders, intercepts, ticks,
                 enableCalls, clearCalls>>

-----------------------------------------------------------------------------
(* The reconciliation tick: processPendingResponses                         *)

\* capturedTraffic.findIndex(row => row.id === id), 1-based, 0 for -1
FindIndex(traffic, id) ==
  IF \E i \in 1..Len(traffic) : traffic[i].id = id
  THEN CHOOSE i \in 1..Len(traffic) :
         traffic[i].id = id /\ \A j \in 1..(i - 1) : traffic[j].id # id
  ELSE 0

\* an update that recomputes the verdict whether or not a modified response
\* is present
ResolveRowAlwaysCompares(row, resp) ==
  LET code   == resp.code
      length == FetchedLengthTable[resp]
  IN  [row EXCEPT !.code = code, !.length = length, !.respRaw = resp.raw,
                  !.comparison =
                     CompareTable[resp][[code   |-> row.modifiedCode,
                                         length |-> row.modifiedLength,
                                         raw    |-> row.modifiedRespRaw]]]

\* the in-place update of a row once its response has been fetched
ResolveRow(row, resp) ==
  LET code   == resp.code
      length == FetchedLengthTable[resp]
      filled == [row EXCEPT !.code = code, !.length = length, !.respRaw = resp.raw]
  IN  IF row.modifiedRespRaw # <<>>
      THEN [filled EXCEPT !.comparison =
              CompareTable[resp][[code   |-> row.modifiedCode,
                                  length |-> row.modifiedLength,
                                  raw    |-> row.modifiedRespRaw]]]
      ELSE filled

\* what sdk.requests.get(id) may give a tick: a rejection, no such request,
\* a request without a response, a response without raw text, the response
FetchOutcomes(id) ==
  {[kind |-> "throw"], [kind |-> "notFound"], NoResponse, EmptyRaw(SourceResponse(id)),
   SourceResponse(id)}

\* a loop body that drops an identity whose fetch failed
QueueAfterFetchDropsFailed(queue, id, fetched) ==
  IF fetched.kind \in {"notFound", "throw"} THEN SetDelete(queue, id) ELSE queue

\* the queue after one loop iteration: only "request not found" removes
QueueAfterFetch(queue, id, fetched) ==
  IF fetched.kind = "notFound" THEN SetDelete(queue, id) ELSE queue

\* a tick that forgets to remove the identities it updated
QueueAfterTickKeepsAll(queue, updatedIds) ==
  queue

\* the queue after the loop: "Remove updated IDs from queue"
QueueAfterTick(queue, updatedIds) ==
  SelectSeq(queue, LAMBDA y : y \notin updatedIds)

\* the timer fires: the enabled plugin snapshots a non-empty queue and awaits
\* the first fetch
TickStart ==
  LET tick == [pendingIds |-> pendingResponseQueue, updatedIds |-> {}]
  IN  /\ activeTimers # {}
      /\ isPluginEnabled
      /\ pendingResponseQueue # <<>>
      /\ tick \notin ticks
      /\ ticks' = ticks \cup {tick}
      /\ UNCHANGED <<isPluginEnabled, capturedTraffic, modifiedRequestIds,
                     pendingResponseQueue, responseUpdateInterval, activeTimers,
                     storedAuthHeaders, intercepts, histories,
                     enableCalls, clearCalls>>

\* whether this iteration updates a row: a non-empty raw response was fetched
\* and the ledger holds a row with the identity
Resolves(traffic, id, fetched) ==
  /\ fetched.kind = "response"
  /\ fetched.raw # <<>>
  /\ FindIndex(traffic, id) # 0

\* one fetch of a tick returns: the loop body for the first identity left,
\* and, when it was the last one, the code after the loop
TickFetch(tick, fetched) ==
  LET id      == Head(tick.pendingIds)
      rest    == Tail(tick.pendingIds)
      hit     == Resolves(capturedTraffic, id, fetched)
      updated == IF hit THEN tick.updatedIds \cup {id} ELSE tick.updatedIds
      queue   == QueueAfterFetch(pendingResponseQueue, id, fetched)
  IN  /\ tick \in ticks
      /\ fetched \in FetchOutcomes(id)
      /\ capturedTraffic' =
           IF hit
           THEN [capturedTraffic EXCEPT ![FindIndex(capturedTraffic, id)] =
                   ResolveRow(capturedTraffic[FindIndex(capturedTraffic, id)], fetched)]
           ELSE capturedTraffic
      /\ IF rest = <<>>
         THEN /\ pendingResponseQueue' = QueueAfterTick(queue, updated)
              /\ ticks' = ticks \ {tick}
         ELSE /\ pendingResponseQueue' = queue
              /\ ticks' = (ticks \ {tick}) \cup {[pendingIds |-> rest, updatedIds |-> updated]}
      /\ UNCHANGED <<isPluginEnabled, modifiedRequestIds, responseUpdateInterval,
                     activeTimers, storedAuthHeaders, intercepts, histories,
                     enableCalls, clearCalls>>

-----------------------------------------------------------------------------
(* The controller: setPluginEnabled, clearTraffic, project change, config   *)

\* setPluginEnabled(true) while disabled: the baseline query is issued
EnableStart ==
  /\ ~isPluginEnabled
  /\ enableCalls' = enableCalls + 1
  /\ UNCHANGED <<isPluginEnabled, capturedTraffic, modifiedRequestIds,
                 pendingResponseQueue, responseUpdateInterval, activeTimers,
                 storedAuthHeaders, intercepts, histories, ticks, clearCalls>>

\* the baseline query returns: guard and queue are cleared, the timer is
\* started and the plugin is enabled
EnableResume ==
  LET started == startResponseProcessing(responseUpdateInterval, activeTimers)
  IN  /\ enableCalls > 0
      /\ enableCalls' = enableCalls - 1
      /\ modifiedRequestIds' = {}
      /\ pendingResponseQueue' = <<>>
      /\ responseUpdateInterval' = started.interval
      /\ activeTimers' = started.timers
      /\ isPluginEnabled' = TRUE
      /\ UNCHANGED <<capturedTraffic, storedAuthHeaders, intercepts,
                     histories, ticks, clearCalls>>

\* the baseline query fails: the catch block returns an Error
EnableFail ==
  /\ enableCalls > 0
  /\ enableCalls' = enableCalls - 1
  /\ UNCHANGED <<isPluginEnabled, capturedTraffic, modifiedRequestIds,
                 pendingResponseQueue, responseUpdateInterval, activeTimers,
                 storedAuthHeaders, intercepts, histories, ticks, clearCalls>>

\* a disable that also resets the ledger, as clearTraffic does
DisableClearsTraffic ==
  LET stopped == stopResponseProcessing(responseUpdateInterval, activeTimers)
  IN  /\ isPluginEnabled
      /\ capturedTraffic' = <<>>
      /\ modifiedRequestIds' = {}
      /\ pendingResponseQueue' = <<>>
      /\ responseUpdateInterval' = stopped.interval
      /\ activeTimers' = stopped.timers
      /\ isPluginEnabled' = FALSE
      /\ UNCHANGED <<storedAuthHeaders, intercepts, histories, ticks,
                     enableCalls, clearCalls>>

\* a disable that stops the timer but leaves the queue as it is
DisableKeepsQueue ==
  LET stopped == stopResponseProcessing(responseUpdateInterval, activeTimers)
  IN  /\ isPluginEnabled
      /\ modifiedRequestIds' = {}
      /\ responseUpdateInterval' = stopped.interval
      /\ activeTimers' = stopped.timers
      /\ isPluginEnabled' = FALSE
      /\ UNCHANGED <<capturedTraffic, pendingResponseQueue, storedAuthHeaders,
                     intercepts, histories, ticks, enableCalls, clearCalls>>

\* setPluginEnabled(false) while enabled: no await, one turn
Disable ==
  LET stopped == stopResponseProcessing(responseUpdateInterval, activeTimers)
  IN  /\ isPluginEnabled
      /\ modifiedRequestIds' = {}
      /\ pendingResponseQueue' = <<>>
      /\ responseUpdateInterval' = stopped.interval
      /\ activeTimers' = stopped.timers
      /\ isPluginEnabled' = FALSE
      /\ UNCHANGED <<capturedTraffic, storedAuthHeaders, intercepts,
                     histories, ticks, enableCalls, clearCalls>>

\* setPluginEnabled(enabled) in the state it asks for: neither branch runs and
\* isPluginEnabled is assigned the value it has
SetPluginEnabledSame(enabled) ==
  /\ enabled = isPluginEnabled
  /\ isPluginEnabled' = enabled
  /\ UNCHANGED <<capturedTraffic, modifiedRequestIds, pendingResponseQueue,
                 responseUpdateInterval, activeTimers, storedAuthHeaders,
                 intercepts, histories, ticks, enableCalls, clearCalls>>

\* clearTraffic: the baseline query is issued
ClearStart ==
  /\ clearCalls' = clearCalls + 1
  /\ UNCHANGED <<isPluginEnabled, capturedTraffic, modifiedRequestIds,
                 pendingResponseQueue, responseUpdateInterval, activeTimers,
                 storedAuthHeaders, intercepts, histories, ticks, enableCalls>>

\* a clearTraffic that empties the ledger and leaves the queue as it is
ClearResumeKeepsQueue ==
  /\ clearCalls > 0
  /\ clearCalls' = clearCalls - 1
  /\ capturedTraffic' = <<>>
  /\ UNCHANGED <<isPluginEnabled, modifiedRequestIds, pendingResponseQueue,
                 responseUpdateInterval, activeTimers, storedAuthHeaders, intercepts,
                 histories, ticks, enableCalls>>

\* the query returns: ledger and queue are emptied, Ok is returned
ClearResume ==
  /\ clearCalls > 0
  /\ clearCalls' = clearCalls - 1
  /\ capturedTraffic' = <<>>
  /\ pendingResponseQueue' = <<>>
  /\ UNCHANGED <<isPluginEnabled, modifiedRequestIds, responseUpdateInterval,
                 activeTimers, storedAuthHeaders, intercepts, histories,
                 ticks, enableCalls>>

\* the query fails: an Error is returned
ClearFail ==
  /\ clearCalls > 0
  /\ clearCalls' = clearCalls - 1
  /\ UNCHANGED <<isPluginEnabled, capturedTraffic, modifiedRequestIds,
                 pendingResponseQueue, responseUpdateInterval, activeTimers,
                 storedAuthHeaders, intercepts, histories, ticks, enableCalls>>

\* onProjectChange
ProjectChange ==
  /\ capturedTraffic' = <<>>
  /\ pendingResponseQueue' = <<>>
  /\ modifiedRequestIds' = {}
  /\ UNCHANGED <<isPluginEnabled, responseUpdateInterval, activeTimers,
                 storedAuthHeaders, intercepts, histories, ticks,
                 enableCalls, clearCalls>>

\* saveAuthHeaders
SaveAuthHeaders(headers) ==
  /\ storedAuthHeaders' = headers
  /\ UNCHANGED <<isPluginEnabled, capturedTraffic, modifiedRequestIds,
                 pendingResponseQueue, responseUpdateInterval, activeTimers,
                 intercepts, histories, ticks, enableCalls, clearCalls>>

\* The bounds of a specification: a call may start while fewer than calls
\* are in progress, and a step may not leave more than rows rows
MayStart(calls) ==
  InFlight < calls

Keeps(rows) ==
  Len(capturedTraffic') <= rows

Handlers(rows, calls, auths) ==
  \/ \E id \in Ids : InterceptRejected(id)
  \/ \E id \in Ids : \E resp \in InterceptedResponses(id) :
       InterceptUnmodified(id, resp) /\ Keeps(rows)
  \/ \E id \in Ids : \E resp \in InterceptedResponses(id) :
       MayStart(calls) /\ InterceptDispatch(id, resp)
  \/ \E call \in intercepts : \E outcome \in DispatchOutcomes(call.id) :
       InterceptResume(call, outcome) /\ Keeps(rows)
  \/ \E id \in Ids : HistoryError(id)
  \/ \E id \in Ids : MayStart(calls) /\ HistoryDispatch(id)
  \/ \E call \in histories : \E outcome \in DispatchOutcomes(call.id) :
       HistoryResume(call, outcome) /\ Keeps(rows)
  \/ MayStart(calls) /\ TickStart
  \/ \E tick \in ticks : \E fetched \in FetchOutcomes(Head(tick.pendingIds)) :
       TickFetch(tick, fetched)
  \/ MayStart(calls) /\ EnableStart
  \/ EnableResume
  \/ EnableFail
  \/ Disable
  \/ \E enabled \in BOOLEAN : SetPluginEnabledSame(enabled)
  \/ MayStart(calls) /\ ClearStart
  \/ ClearResume
  \/ ClearFail
  \/ ProjectChange
  \/ \E headers \in auths : SaveAuthHeaders(headers)

Step(rows, calls, auths) ==
  Handlers(rows, calls, auths) /\ UNCHANGED <<probe, tableChanged, isEnabled, selectedScope, selectedScopeStructure>>

Next ==
  Step(MaxRows, MaxInFlight, AuthTexts)

Spec ==
  Init /\ [][Next]_vars

RaceNext ==
  Step(RaceMaxRows, RaceMaxInFlight, AuthTexts)

RaceSpec ==
  Init /\ [][RaceNext]_vars

\* the runs in which the configured auth headers may be those of the requests
GateNext ==
  Step(RaceMaxRows, MaxInFlight, GateAuthTexts)

GateSpec ==
  Init /\ [][GateNext]_vars

\* Manual processing alone, on the intercepted requests and on the stored
\* request whose Host header is spelled HOST
HostIds ==
  Ids \cup {HostlessId}

HostHandlers ==
  \/ \E id \in HostIds : HistoryError(id)
  \/ \E id \in HostIds : MayStart(MaxInFlight) /\ HistoryDispatch(id)
  \/ \E id \in HostIds : HistoryNotSent(id) /\ Keeps(MaxRows)
  \/ \E call \in histories : \E outcome \in DispatchOutcomes(call.id) :
       HistoryResume(call, outcome) /\ Keeps(MaxRows)
  \/ \E headers \in AuthTexts : SaveAuthHeaders(headers)

HostNext ==
  HostHandlers /\ UNCHANGED <<probe, tableChanged, isEnabled, selectedScope, selectedScopeStructure>>

HostSpec ==
  Init /\ [][HostNext]_vars

\* The reconciliation together with the tableChanged events of the backend:
\* interception without modification, the timer's ticks, clearTraffic, and
\* the frontend that receives the events

\* most events that are sent and not yet received
MaxUndelivered ==
  1

\* sdk.api.send("tableChanged", capturedTraffic) in the named function
Notification(from, traffic) ==
  [from |-> from, traffic |-> traffic]

\* the handler sends these events, in this order
Sends(events) ==
  /\ Len(tableChanged) + Len(events) <= MaxUndelivered
  /\ tableChanged' = tableChanged \o events

\* a reconciliation that sends at every identity it resolves
TickSendsEachResolution(tick, fetched) ==
  IF Resolves(capturedTraffic, Head(tick.pendingIds), fetched)
  THEN <<Notification("processPendingResponses", capturedTraffic')>>
  ELSE <<>>

\* what a fetch of a tick sends: nothing inside the loop, and after the
\* loop one event with the ledger when updatedIds.size > 0
TickSends(tick, fetched) ==
  LET id         == Head(tick.pendingIds)
      updatedIds == IF Resolves(capturedTraffic, id, fetched)
                    THEN tick.updatedIds \cup {id} ELSE tick.updatedIds
  IN  IF Tail(tick.pendingIds) = <<>> /\ updatedIds # {}
      THEN <<Notification("processPendingResponses", capturedTraffic')>>
      ELSE <<>>

\* the frontend's tableChanged listener takes the oldest event
FrontendReceives ==
  /\ tableChanged # <<>>
  /\ tableChanged' = Tail(tableChanged)
  /\ UNCHANGED vars

NotifyHandlers ==
  \/ \E id \in Ids : \E resp \in InterceptedResponses(id) :
       /\ InterceptUnmodified(id, resp) /\ Keeps(MaxRows)
       /\ Sends(<<Notification("handleInterceptedResponse", capturedTraffic')>>)
  \/ MayStart(RaceMaxInFlight) /\ TickStart /\ Sends(<<>>)
  \/ \E tick \in ticks : \E fetched \in FetchOutcomes(Head(tick.pendingIds)) :
       TickFetch(tick, fetched) /\ Sends(TickSends(tick, fetched))
  \/ MayStart(RaceMaxInFlight) /\ EnableStart /\ Sends(<<>>)
  \/ EnableResume /\ Sends(<<>>)
  \/ MayStart(RaceMaxInFlight) /\ ClearStart /\ Sends(<<>>)
  \/ ClearResume /\ Sends(<<Notification("clearTraffic", capturedTraffic')>>)
  \/ ClearFail /\ Sends(<<>>)
  \/ FrontendReceives

NotifyNext ==
  NotifyHandlers /\ UNCHANGED <<probe, isEnabled, selectedScope, selectedScopeStructure>>

NotifySpec ==
  Init /\ [][NotifyNext]_<<vars, tableChanged>>

\* Interception in the order of the request identities: the proxy numbers
\* the requests as they come, and here each intercepted request is newer
\* than every request intercepted before it
Arrives(id) ==
  \A k \in LedgerIds \cup {call.id : call \in intercepts} : k < id

OrderHandlers ==
  \/ MayStart(RaceMaxInFlight) /\ EnableStart
  \/ EnableResume
  \/ \E headers \in AuthTexts : SaveAuthHeaders(headers)
  \/ \E id \in Ids : \E resp \in InterceptedResponses(id) :
       Arrives(id) /\ InterceptUnmodified(id, resp) /\ Keeps(MaxRows)
  \/ \E id \in Ids : \E resp \in InterceptedResponses(id) :
       Arrives(id) /\ MayStart(RaceMaxInFlight) /\ InterceptDispatch(id, resp)
  \/ \E call \in intercepts : \E outcome \in DispatchOutcomes(call.id) :
       InterceptResume(call, outcome) /\ Keeps(MaxRows)
  \/ MayStart(RaceMaxInFlight) /\ TickStart
  \/ \E tick \in ticks : \E fetched \in FetchOutcomes(Head(tick.pendingIds)) :
       TickFetch(tick, fetched)

OrderNext ==
  OrderHandlers /\ UNCHANGED <<probe, tableChanged, isEnabled, selectedScope, selectedScopeStructure>>

OrderSpec ==
  Init /\ [][OrderNext]_vars

\* The switch of the frontend and the setPluginEnabled calls it issues: the
\* watcher calls the backend with the new value each time the switch
\* changes.  The baseline query succeeds in these runs

\* the switch goes on: setPluginEnabled(true) is called
SwitchOn ==
  /\ ~isEnabled
  /\ isEnabled' = TRUE
  /\ \/ MayStart(RaceMaxInFlight) /\ EnableStart
     \/ SetPluginEnabledSame(TRUE)

\* the switch goes off: setPluginEnabled(false) is called
SwitchOff ==
  /\ isEnabled
  /\ isEnabled' = FALSE
  /\ \/ Disable
     \/ SetPluginEnabledSame(FALSE)

SwitchHandlers ==
  \/ SwitchOn
  \/ SwitchOff
  \/ EnableResume /\ UNCHANGED isEnabled
  \/ \E id \in Ids : \E resp \in InterceptedResponses(id) :
       InterceptUnmodified(id, resp) /\ Keeps(MaxRows) /\ UNCHANGED isEnabled
  \/ MayStart(RaceMaxInFlight) /\ TickStart /\ UNCHANGED isEnabled
  \/ \E tick \in ticks : \E fetched \in FetchOutcomes(Head(tick.pendingIds)) :
       TickFetch(tick, fetched) /\ UNCHANGED isEnabled

SwitchNext ==
  SwitchHandlers /\ UNCHANGED <<probe, tableChanged, selectedScope, selectedScopeStructure>>

SwitchSpec ==
  Init /\ [][SwitchNext]_<<vars, isEnabled>>

\* The scheduling the runtime guarantees to the tick when the request store
\* holds every response: the interval timer keeps firing and every
\* sdk.requests.get returns the response.  A running tick never waits for the
\* bound on calls in progress; a dispatch may stay outstanding for ever.  The
\* proxy hands every request to the callback once.
Fresh(id) ==
  /\ id \notin LedgerIds
  /\ id \notin PendingSet
  /\ \A call \in intercepts : call.id # id

FairTickStart ==
  ticks = {} /\ TickStart /\ UNCHANGED <<probe, tableChanged, isEnabled, selectedScope, selectedScopeStructure>>

FairTickFetch ==
  /\ \E tick \in ticks : TickFetch(tick, SourceResponse(Head(tick.pendingIds)))
  /\ UNCHANGED <<probe, tableChanged, isEnabled, selectedScope, selectedScopeStructure>>

FairHandlers ==
  \/ \E id \in FairIds : \E resp \in InterceptedResponses(id) :
       Fresh(id) /\ InterceptUnmodified(id, resp)
  \/ \E id \in FairIds : \E resp \in InterceptedResponses(id) :
       Fresh(id) /\ MayStart(MaxInFlight) /\ InterceptDispatch(id, resp)
  \/ \E call \in intercepts : \E outcome \in DispatchOutcomes(call.id) :
       InterceptResume(call, outcome)
  \/ FairTickStart
  \/ FairTickFetch
  \/ MayStart(MaxInFlight) /\ EnableStart
  \/ EnableResume
  \/ Disable
  \/ MayStart(MaxInFlight) /\ ClearStart
  \/ ClearResume
  \/ \E headers \in AuthTexts : SaveAuthHeaders(headers)

FairNext ==
  FairHandlers /\ UNCHANGED <<probe, tableChanged, isEnabled, selectedScope, selectedScopeStructure>>

FairSpec ==
  Init /\ [][FairNext]_vars /\ WF_vars(FairTickStart) /\ WF_vars(FairTickFetch)

-----------------------------------------------------------------------------
(* scopes.ts: the scope check isUrlInScope and its glob matcher            *)

\* longest hostname and longest scope pattern that are tried
MaxHost ==
  2

MaxPattern ==
  2

\* longest allowlist and longest denylist of a scope structure
MaxList ==
  1

Texts(chars, n) ==
  UNION {[1..k -> chars] : k \in 0..n}

HostChars ==
  {"a", "A", ".", "+"}

PatternChars ==
  {"a", "A", ".", "*", "?", "+"}

Hostnames ==
  Texts(HostChars, MaxHost)

Patterns ==
  Texts(PatternChars, MaxPattern)

\* one term of the regular expression: an atom (one given character, or any
\* character) and how often it repeats
Term(atom, ch, quant) ==
  [atom |-> atom, ch |-> ch, quant |-> quant]

RECURSIVE Compile(_, _)
\* new RegExp(`^${regexPattern}$`) after the three replacements: a dot is
\* escaped to a literal dot, * becomes .* and ? becomes . ; every other
\* character goes into the expression as written, so + quantifies the term
\* before it and is a SyntaxError (nothing to repeat) when there is none or
\* when that term is already quantified
Compile(pattern, terms) ==
  IF pattern = <<>> THEN [throws |-> FALSE, terms |-> terms]
  ELSE LET c == Head(pattern)
       IN  IF c = "*" THEN Compile(Tail(pattern), Append(terms, Term("any", c, "star")))
           ELSE IF c = "?" THEN Compile(Tail(pattern), Append(terms, Term("any", c, "one")))
           ELSE IF c = "+"
                THEN IF terms = <<>> \/ terms[Len(terms)].quant # "one"
                     THEN [throws |-> TRUE, terms |-> <<>>]
                     ELSE Compile(Tail(pattern),
                                  [terms EXCEPT ![Len(terms)].quant = "plus"])
           ELSE Compile(Tail(pattern), Append(terms, Term("char", c, "one")))

Fits(term, c) ==
  term.atom = "any" \/ term.ch = c

RECURSIVE RegExpTest(_, _)
\* regex.test(hostname) for an expression anchored at both ends
RegExpTest(terms, hostname) ==
  IF terms = <<>> THEN hostname = <<>>
  ELSE LET t == Head(terms)
       IN  IF t.quant = "one"
           THEN /\ hostname # <<>>
                /\ Fits(t, Head(hostname))
                /\ RegExpTest(Tail(terms), Tail(hostname))
           ELSE IF t.quant = "star"
           THEN \/ RegExpTest(Tail(terms), hostname)
                \/ /\ hostname # <<>>
                   /\ Fits(t, Head(hostname))
                   /\ RegExpTest(terms, Tail(hostname))
           ELSE /\ hostname # <<>>
                /\ Fits(t, Head(hostname))
                /\ RegExpTest(<<[t EXCEPT !.quant = "star"]>> \o Tail(terms), Tail(hostname))

\* throws: the RegExp constructor raised; value: what test returned
matchesPattern(hostname, pattern) ==
  LET regex == Compile(pattern, <<>>)
  IN  IF regex.throws THEN [throws |-> TRUE, value |-> FALSE]
      ELSE [throws |-> FALSE, value |-> RegExpTest(regex.terms, hostname)]

UrlPrefix ==
  <<"h", "t", "t", "p", ":", "/", "/">>

\* new URL(url).hostname for an http URL: the text between the scheme and the
\* first slash, lower-cased by the parser; a text without the scheme or with
\* an empty host makes the constructor throw
URLHostname(url) ==
  IF ~StartsWith(url, UrlPrefix) THEN [throws |-> TRUE, hostname |-> <<>>]
  ELSE LET rest == SubstringFrom(url, Len(UrlPrefix))
           end  == IndexOf(rest, "/")
           host == IF end = -1 THEN rest ELSE Substring(rest, 0, end)
       IN  IF host = <<>> THEN [throws |-> TRUE, hostname |-> <<>>]
           ELSE [throws |-> FALSE, hostname |-> ToLowerCase(host)]

UrlOf(host) ==
  UrlPrefix \o host \o <<"/">>

\* selectedScopeStructure when it is a scope: its two lists
ScopeStructure(allowlist, denylist) ==
  [kind |-> "scope", allowlist |-> allowlist, denylist |-> denylist]

PatternLists ==
  UNION {[1..k -> Patterns] : k \in 0..MaxList}

ScopeStructures ==
  {NoScope} \cup {ScopeStructure(a, d) : a \in PatternLists, d \in PatternLists}

\* the loop over one list: the first pattern that matches or throws ends it
RECURSIVE ListScan(_, _)
ListScan(hostname, list) ==
  IF list = <<>> THEN [throws |-> FALSE, value |-> FALSE]
  ELSE LET m == matchesPattern(hostname, ToLowerCase(Head(list)))
       IN  IF m.throws \/ m.value THEN m ELSE ListScan(hostname, Tail(list))

isUrlInScope(scopeStructure, url) ==
  IF scopeStructure.kind = "undefined" THEN TRUE
  ELSE LET urlObj == URLHostname(url)
           denied  == ListScan(urlObj.hostname, scopeStructure.denylist)
           allowed == ListScan(urlObj.hostname, scopeStructure.allowlist)
       IN  IF urlObj.throws THEN FALSE
           ELSE IF denied.throws THEN FALSE
           ELSE IF denied.value THEN FALSE
           ELSE IF scopeStructure.allowlist = <<>> THEN TRUE
           ELSE IF allowed.throws THEN FALSE
           ELSE allowed.value

\* the calls that are tried: the arguments, and the result once returned
MatchCalls ==
  {[op |-> "matchesPattern", phase |-> "called", hostname |-> h, pattern |-> p,
    result |-> [throws |-> FALSE, value |-> FALSE]] :
     h \in Hostnames, p \in Patterns}

ScopeUrls ==
  {UrlOf(h) : h \in Hostnames} \cup {<<"a">>}

ScopeCalls ==
  {[op |-> "isUrlInScope", phase |-> "called", scope |-> s, url |-> u,
    result |-> FALSE] :
     s \in ScopeStructures, u \in ScopeUrls}

ScopeInit ==
  /\ Loaded
  /\ probe \in MatchCalls \cup ScopeCalls

MatchesPatternReturns ==
  /\ probe.op = "matchesPattern"
  /\ probe.phase = "called"
  /\ probe' = [probe EXCEPT !.phase = "returned",
                            !.result = matchesPattern(probe.hostname, probe.pattern)]
  /\ UNCHANGED <<vars, tableChanged, isEnabled, selectedScope, selectedScopeStructure>>

IsUrlInScopeReturns ==
  /\ probe.op = "isUrlInScope"
  /\ probe.phase = "called"
  /\ probe' = [probe EXCEPT !.phase = "returned",
                            !.result = isUrlInScope(probe.scope, probe.url)]
  /\ UNCHANGED <<vars, tableChanged, isEnabled, selectedScope, selectedScopeStructure>>

ScopeNext ==
  \/ MatchesPatternReturns
  \/ IsUrlInScopeReturns

ScopeSpec ==
  ScopeInit /\ [][ScopeNext]_<<vars, probe>>

\* The selected scope of the backend: setSelectedScope and the project
\* change that resets it, next to the handlers that fill the ledger

\* a scope of the list the frontend passes along
ScopeEntry(id, name, allowlist, denylist) ==
  [kind |-> "scope", id |-> id, name |-> name, allowlist |-> allowlist,
   denylist |-> denylist]

\* two scopes, the name of the second being the id of the first
ScopeEntries ==
  {ScopeEntry(<<"1">>, <<"s">>, <<<<"a">>>>, <<>>),
   ScopeEntry(<<"2">>, <<"1">>, <<>>, <<<<"a">>>>)}

\* most scopes in the list passed to setSelectedScope
MaxScopes ==
  2

ScopesLists ==
  UNION {[1..k -> ScopeEntries] : k \in 0..MaxScopes}

\* the values of the scope argument that are tried
ScopeArguments ==
  {<<>>, <<" ">>, <<"1">>, <<" ", "1">>, <<"s">>, <<"x">>}

\* scopesList.find(s => s.id === trimmed || s.name === trimmed)
FindScope(scopesList, trimmed) ==
  LET hits == {i \in 1..Len(scopesList) :
                 scopesList[i].id = trimmed \/ scopesList[i].name = trimmed}
  IN  IF hits = {} THEN NoScope
      ELSE scopesList[CHOOSE i \in hits : \A j \in hits : i <= j]

setSelectedScope(scope, scopesList) ==
  /\ selectedScope' = scope
  /\ selectedScopeStructure' =
       IF Trim(scope) = <<>> THEN NoScope ELSE FindScope(scopesList, Trim(scope))
  /\ UNCHANGED vars

\* onProjectChange: the ledger, the queue and the guard set are emptied,
\* refreshScopes logs, and setSelectedScopeInternal("") resets the selection
ProjectChangeResetsScope ==
  /\ ProjectChange
  /\ selectedScope' = <<>>
  /\ UNCHANGED selectedScopeStructure

SelectHandlers ==
  \/ \E scope \in ScopeArguments : \E scopesList \in ScopesLists :
       setSelectedScope(scope, scopesList)
  \/ ProjectChangeResetsScope
  \/ MayStart(MaxInFlight) /\ EnableStart /\ UNCHANGED <<selectedScope, selectedScopeStructure>>
  \/ EnableResume /\ UNCHANGED <<selectedScope, selectedScopeStructure>>
  \/ \E id \in Ids : \E resp \in InterceptedResponses(id) :
       /\ InterceptUnmodified(id, resp) /\ Keeps(MaxRows)
       /\ UNCHANGED <<selectedScope, selectedScopeStructure>>

SelectNext ==
  SelectHandlers /\ UNCHANGED <<probe, tableChanged, isEnabled>>

SelectSpec ==
  Init /\ [][SelectNext]_<<vars, selectedScope, selectedScopeStructure>>

-----------------------------------------------------------------------------
(* utils.ts called on its own: compareResponses, getResponseContentLength  *)

CRLF ==
  <<"\r", "\n">>

StatusLine ==
  <<"H", "T", "T", "P">>

\* a raw response: status line, header lines, the line that ends the header
\* section (empty, or holding white space only) and the body
RawOf(headerLines, separator, body) ==
  StatusLine \o CRLF
    \o Join([i \in 1..Len(headerLines) |-> headerLines[i] \o CRLF], <<>>)
    \o separator \o CRLF \o body

SeparatorLines ==
  {<<>>, <<" ">>}

LocationLines ==
  { <<>>,
    << <<"L", "o", "c", "a", "t", "i", "o", "n", ":", " ", "x">> >>,
    << <<"l", "o", "c", "a", "t", "i", "o", "n", ":", "x", " ">> >>,
    << <<"L", "o", "c", "a", "t", "i", "o", "n", ":", " ", "y">> >>,
    << <<"L", "o", "c", "a", "t", "i", "o", "n", ":">> >> }

CompareBodies ==
  { <<"b">>, <<" ", "b">>, <<"c">>,
    <<"L", "o", "c", "a", "t", "i", "o", "n", ":", " ", "x">> }

CompareRaws ==
  {<<>>} \cup {RawOf(h, s, b) : h \in LocationLines, s \in SeparatorLines, b \in CompareBodies}

CompareCodes ==
  {299, 300, 399, 400}

CompareLengths ==
  {0, 1}

CompareCalls ==
  {[op |-> "compareResponses", phase |-> "called",
    originalCode |-> oc, originalLength |-> 0,
    modifiedCode |-> mc, modifiedLength |-> ml,
    originalRespRaw |-> o, modifiedRespRaw |-> m, result |-> "unknown"] :
     oc \in CompareCodes, mc \in CompareCodes, ml \in CompareLengths,
     o \in CompareRaws, m \in CompareRaws}

ContentLengthHeader(name, value) ==
  [name |-> name, values |-> <<value>>]

\* the header objects of the responses that are tried
LengthHeaders ==
  { <<>>,
    <<ContentLengthHeader(<<"C", "o", "n", "t", "e", "n", "t", "-", "L", "e", "n", "g", "t", "h">>, <<"2">>)>>,
    <<ContentLengthHeader(ContentLengthName, <<"7">>)>>,
    <<ContentLengthHeader(ContentLengthName, <<"x">>)>> }

HeaderLine(h) ==
  h.name \o <<":", " ">> \o h.values[1]

LengthBodies ==
  { <<>>, <<"b">>, <<"b", "\r", "\n", "c">>,
    ContentLengthName \o <<":", " ", "7">> }

\* a response object with its raw text, the raw text alone (resp undefined),
\* and a response whose raw text is missing
LengthCalls ==
  {[op |-> "getResponseContentLength", phase |-> "called",
    resp |-> IF known THEN Response(200, h, RawOf([i \in 1..Len(h) |-> HeaderLine(h[i])], s, b))
             ELSE NoResponse,
    respRaw |-> RawOf([i \in 1..Len(h) |-> HeaderLine(h[i])], s, b), result |-> 0] :
     known \in BOOLEAN, h \in LengthHeaders, s \in SeparatorLines, b \in LengthBodies}
  \cup
  {[op |-> "getResponseContentLength", phase |-> "called",
    resp |-> r, respRaw |-> <<>>, result |-> 0] :
     r \in {NoResponse} \cup {Response(200, h, <<>>) : h \in LengthHeaders}}

UtilsInit ==
  /\ Loaded
  /\ probe \in CompareCalls \cup LengthCalls

CompareResponsesReturns ==
  /\ probe.op = "compareResponses"
  /\ probe.phase = "called"
  /\ probe' = [probe EXCEPT !.phase = "returned",
                 !.result = compareResponses(probe.originalCode, probe.originalLength,
                                             probe.modifiedCode, probe.modifiedLength,
                                             probe.originalRespRaw, probe.modifiedRespRaw)]
  /\ UNCHANGED <<vars, tableChanged, isEnabled, selectedScope, selectedScopeStructure>>

GetResponseContentLengthReturns ==
  /\ probe.op = "getResponseContentLength"
  /\ probe.phase = "called"
  /\ probe' = [probe EXCEPT !.phase = "returned",
                 !.result = getResponseContentLength(probe.resp, probe.respRaw)]
  /\ UNCHANGED <<vars, tableChanged, isEnabled, selectedScope, selectedScopeStructure>>

UtilsNext ==
  \/ CompareResponsesReturns
  \/ GetResponseContentLengthReturns

UtilsSpec ==
  UtilsInit /\ [][UtilsNext]_<<vars, probe>>

-----------------------------------------------------------------------------
(* Request rebuilding called on its own: modifyAndResendRequest up to the  *)
(* dispatch, applyHeadersToReplay (backend and frontend), sendToReplay      *)

\* most header lines of a request and most lines of the auth text tried
MaxHeaders ==
  2

MaxAuthLines ==
  2

\* applyHeadersToReplay of auth-headers.ts up to sdk.replay.createSession:
\* the same rebuild as modifyAndResendRequest, except that an auth line is
\* trimmed before its colon is looked for and every early exit is an Error
applyHeadersToReplay(authText, originalReqRaw) ==
  IF Trim(authText) = <<>> THEN [kind |-> "Error", error |-> "No authentication headers configured"]
  ELSE IF originalReqRaw = <<>> THEN [kind |-> "Error", error |-> "Could not retrieve raw request data"]
  ELSE
    LET lines           == Split(originalReqRaw, "\n")
        headerEndIndex  == HeaderEndIndex(lines)
        originalHeaders == ParseHeaderLines(SubSeq(lines, 2, headerEndIndex), TRUE, <<>>)
        authHeaders     == ParseHeaderLines(
                             SelectSeq(Split(authText, "\n"), LAMBDA l : Trim(l) # <<>>),
                             TRUE, <<>>)
        modifiedHeaders == MergeHeaders(originalHeaders, authHeaders)
        requestLine     == lines[1]
        body            == IF headerEndIndex < Len(lines)
                           THEN Join(SubSeq(lines, headerEndIndex + 2, Len(lines)), <<"\n">>)
                           ELSE <<>>
        modifiedReqRaw  == requestLine \o <<"\r", "\n">> \o HeaderText(modifiedHeaders)
                           \o <<"\r", "\n">> \o body
        requestParts    == Split(requestLine, " ")
        host            == IF ObjectGet(modifiedHeaders, HostKey) # <<>>
                           THEN ObjectGet(modifiedHeaders, HostKey)
                           ELSE ObjectGet(modifiedHeaders, ToLowerCase(HostKey))
        protocol        == IF ObjectGet(modifiedHeaders, ProtoKey) # <<>>
                           THEN ObjectGet(modifiedHeaders, ProtoKey)
                           ELSE HttpsText
    IN  IF Len(requestParts) < 3 THEN [kind |-> "Error", error |-> "Invalid request line format"]
        ELSE IF host = <<>> THEN [kind |-> "Error", error |-> "No Host header found"]
        ELSE [kind |-> "Ok", modifiedReqRaw |-> modifiedReqRaw,
              spec |-> [url     |-> protocol \o <<":", "/", "/">> \o host \o requestParts[2],
                        method  |-> requestParts[1],
                        headers |-> SelectSeq(modifiedHeaders,
                                      LAMBDA h : ToLowerCase(h.name) # ToLowerCase(HostKey)),
                        body    |-> IF Trim(body) # <<>> THEN body ELSE <<>>]]

BodilessMethods ==
  {<<"G", "E", "T">>, <<"H", "E", "A", "D">>, <<"D", "E", "L", "E", "T", "E">>,
   <<"O", "P", "T", "I", "O", "N", "S">>}

\* sendToReplay from the parsing of the raw request to
\* sdk.replay.createSession(spec)
sendToReplay(requestRaw) ==
  IF Trim(requestRaw) = <<>> THEN [kind |-> "Error", error |-> "No request data available to send"]
  ELSE
    LET lines          == Split(requestRaw, "\n")
        requestLine    == Trim(lines[1])
        requestParts   == Split(requestLine, " ")
        method         == requestParts[1]
        path           == requestParts[2]
        headerEndIndex == HeaderEndIndex(lines)
        headers        == ParseHeaderLines(SubSeq(lines, 2, headerEndIndex), TRUE, <<>>)
        body           == IF headerEndIndex < Len(lines)
                          THEN Join(SubSeq(lines, headerEndIndex + 2, Len(lines)), <<"\n">>)
                          ELSE <<>>
        hasBody        == Trim(body) # <<>>
        host           == IF ObjectGet(headers, HostKey) # <<>>
                          THEN ObjectGet(headers, HostKey)
                          ELSE ObjectGet(headers, ToLowerCase(HostKey))
        protocol       == IF ObjectGet(headers, ProtoKey) # <<>>
                          THEN ObjectGet(headers, ProtoKey)
                          ELSE HttpsText
    IN  IF requestLine = <<>> THEN [kind |-> "Error", error |-> "Empty request line"]
        ELSE IF Len(requestParts) < 3 THEN [kind |-> "Error", error |-> "Invalid request line format"]
        ELSE IF method = <<>> \/ path = <<>>
             THEN [kind |-> "Error", error |-> "Invalid method or path in request line"]
        ELSE IF host = <<>> THEN [kind |-> "Error", error |-> "No Host header found in request"]
        ELSE [kind |-> "Ok",
              spec |-> [url     |-> protocol \o <<":", "/", "/">> \o host \o path,
                        method  |-> method,
                        headers |-> SelectSeq(headers,
                                      LAMBDA h : ToLowerCase(h.name) # ToLowerCase(HostKey)),
                        body    |-> IF hasBody /\ ToUpperCase(method) \notin BodilessMethods
                                    THEN body ELSE <<>>]]

\* match-replace.ts: a rule of storedMatchReplaceRules
Rule(match, replace, enabled) ==
  [match |-> match, replace |-> replace, enabled |-> enabled]

RECURSIVE ExpandReplacement(_, _, _, _)
\* the replacement text as String.prototype.replace reads it: $$ is one
\* dollar sign, $& the matched text, $` the text before the match and $' the
\* text after it; any other character, a dollar sign included, is itself
ExpandReplacement(replace, matched, before, after) ==
  IF replace = <<>> THEN <<>>
  ELSE IF Head(replace) = "$" /\ Len(replace) >= 2 /\ replace[2] \in {"$", "&", "`", "'"}
       THEN (CASE replace[2] = "$" -> <<"$">>
               [] replace[2] = "&" -> matched
               [] replace[2] = "`" -> before
               [] replace[2] = "'" -> after)
            \o ExpandReplacement(Tail(Tail(replace)), matched, before, after)
       ELSE <<Head(replace)>> \o ExpandReplacement(Tail(replace), matched, before, after)

RECURSIVE ReplaceFrom(_, _, _, _)
\* modifiedBody.replace(new RegExp(escapeRegExp(match), 'g'), replace) from
\* the 0-based index i on: the escaped expression matches the text of match
\* literally, leftmost first and without overlap
ReplaceFrom(s, i, match, replace) ==
  IF i >= Len(s) THEN <<>>
  ELSE IF StartsWith(SubstringFrom(s, i), match)
       THEN ExpandReplacement(replace, match, Substring(s, 0, i),
                              SubstringFrom(s, i + Len(match)))
            \o ReplaceFrom(s, i + Len(match), match, replace)
       ELSE <<s[i + 1]>> \o ReplaceFrom(s, i + 1, match, replace)

\* rule.enabled && rule.match.trim() !== ''
EnabledRule(rule) ==
  rule.enabled /\ Trim(rule.match) # <<>>

RECURSIVE ApplyRules(_, _)
ApplyRules(rules, body) ==
  IF rules = <<>> THEN body
  ELSE ApplyRules(Tail(rules), ReplaceFrom(body, 0, Head(rules).match, Head(rules).replace))

applyMatchReplaceRules(storedMatchReplaceRules, body) ==
  IF body = <<>> \/ Trim(body) = <<>> THEN body
  ELSE ApplyRules(SelectSeq(storedMatchReplaceRules, EnabledRule), body)

hasEnabledMatchReplaceRules(storedMatchReplaceRules) ==
  \E i \in 1..Len(storedMatchReplaceRules) : EnabledRule(storedMatchReplaceRules[i])

\* applyHeadersToReplay of the frontend: the request text with the auth
\* headers written over it.  storedMatchReplaceRules is what the backend
\* holds while the two backend calls are answered
applyHeadersToReplayText(requestText, authHeaders, storedMatchReplaceRules) ==
  IF requestText = <<>> \/ Trim(authHeaders) = <<>> THEN requestText
  ELSE
    LET lines           == SplitLines(requestText)
        headerEndIndex  == HeaderEndIndex(lines)
        existingHeaders == ParseHeaderLines(SubSeq(lines, 2, headerEndIndex), TRUE, <<>>)
        newAuthHeaders  == ParseHeaderLines(
                             SelectSeq(Split(authHeaders, "\n"), LAMBDA l : Trim(l) # <<>>),
                             TRUE, <<>>)
        shouldReplace(h) == \E i \in 1..Len(newAuthHeaders) :
                              ToLowerCase(h.name) = ToLowerCase(newAuthHeaders[i].name)
        filteredHeaders == SelectSeq(existingHeaders, LAMBDA h : ~shouldReplace(h))
        modifiedHeaders == MergeHeaders(filteredHeaders, newAuthHeaders)
        requestLine     == lines[1]
        body            == IF headerEndIndex < Len(lines)
                           THEN Join(SubSeq(lines, headerEndIndex + 2, Len(lines)), <<"\r", "\n">>)
                           ELSE <<>>
        modifiedBody    == IF hasEnabledMatchReplaceRules(storedMatchReplaceRules)
                           THEN applyMatchReplaceRules(storedMatchReplaceRules, body)
                           ELSE body
    IN  requestLine \o <<"\r", "\n">> \o HeaderText(modifiedHeaders)
        \o <<"\r", "\n">> \o modifiedBody

\* the raw requests that are tried: a request line, header lines, the empty
\* line and a body, with LF or CRLF line ends
Methods ==
  {<<"G", "E", "T">>, <<"g", "e", "t">>, <<"P", "O", "S", "T">>}

RequestHeaderLines ==
  { <<"H", "o", "s", "t", ":", " ", "h">>, <<"H", "O", "S", "T", ":", " ", "h">>,
    <<"A", ":", " ", "u">>, <<"a", ":", " ", "w">>, <<"B", ":", " ", "x">> }

LineEnds ==
  {<<"\n">>, <<"\r", "\n">>}

RequestBodies ==
  {<<>>, <<"b">>}

RawRequest(method, headerLines, eol, body) ==
  method \o <<" ", "/", "p", " ", "H">> \o eol
    \o Join([i \in 1..Len(headerLines) |-> headerLines[i] \o eol], <<>>)
    \o eol \o body

RawRequests ==
  {RawRequest(m, h, e, b) :
     m \in Methods, h \in UNION {[1..k -> RequestHeaderLines] : k \in 0..MaxHeaders},
     e \in LineEnds, b \in RequestBodies}

AuthLines ==
  { <<"A", ":", " ", "v">>, <<"a", ":", " ", "v">>,
    <<"H", "o", "s", "t", ":", " ", "g">>, <<"x">> }

RebuildAuthTexts ==
  {Join(l, <<"\n">>) : l \in UNION {[1..k -> AuthLines] : k \in 0..MaxAuthLines}}

RebuildRules ==
  {<<>>, <<Rule(<<"b">>, <<"c">>, TRUE)>>}

RebuildCall(op, auth, req, rules) ==
  [op |-> op, phase |-> "called", auth |-> auth, req |-> req, rules |-> rules,
   result |-> [kind |-> "none"]]

\* the calls that are tried: the two backend functions that merge the auth
\* headers, modifyAndResendRequest and the frontend function with stored
\* rules, sendToReplay
RebuildInit ==
  /\ Loaded
  /\ \E r \in RawRequests :
       \/ \E a \in RebuildAuthTexts :
            \/ \E op \in {"modifyAndResendRequest", "applyHeadersToReplay"} :
                 probe = RebuildCall(op, a, r, <<>>)
            \/ \E s \in RebuildRules :
                 \/ probe = RebuildCall("modifyAndResendRequest", a, r, s)
                 \/ probe = RebuildCall("applyHeadersToReplayText", a, r, s)
       \/ probe = RebuildCall("sendToReplay", <<>>, r, <<>>)

Returns(op, result) ==
  /\ probe.op = op
  /\ probe.phase = "called"
  /\ probe' = [probe EXCEPT !.phase = "returned", !.result = result]
  /\ UNCHANGED <<vars, tableChanged, isEnabled, selectedScope, selectedScopeStructure>>

\* modifyAndResendRequest reaches the dispatch or returns before it
ModifyAndResendRequestPrepares ==
  Returns("modifyAndResendRequest", PrepareModifiedRequest(probe.auth, probe.req))

ApplyHeadersToReplayReturns ==
  Returns("applyHeadersToReplay", applyHeadersToReplay(probe.auth, probe.req))

ApplyHeadersToReplayTextReturns ==
  Returns("applyHeadersToReplayText",
          [kind |-> "text",
           text |-> applyHeadersToReplayText(probe.req, probe.auth, probe.rules)])

SendToReplayReturns ==
  Returns("sendToReplay", sendToReplay(probe.req))

RebuildNext ==
  \/ ModifyAndResendRequestPrepares
  \/ ApplyHeadersToReplayReturns
  \/ ApplyHeadersToReplayTextReturns
  \/ SendToReplayReturns

RebuildSpec ==
  RebuildInit /\ [][RebuildNext]_<<vars, probe>>

-----------------------------------------------------------------------------
(* match-replace.ts: applyMatchReplaceRules on its own                      *)

\* most stored rules tried
MaxRules ==
  2

RuleMatches ==
  {<<>>, <<"a">>, <<"b">>, <<" ">>}

RuleReplaces ==
  {<<>>, <<"b">>, <<"c">>, <<"$", "$">>, <<"$", "&">>}

StoredRules ==
  {Rule(m, r, e) : m \in RuleMatches, r \in RuleReplaces, e \in BOOLEAN}

RuleLists ==
  UNION {[1..n -> StoredRules] : n \in 0..MaxRules}

RuleBodies ==
  {<<>>, <<"a">>, <<"a", "b">>, <<"a", " ", "a">>}

RulesCalls ==
  {[op |-> "applyMatchReplaceRules", phase |-> "called", rules |-> s, body |-> b,
    result |-> <<>>] : s \in RuleLists, b \in RuleBodies}

RulesInit ==
  /\ Loaded
  /\ probe \in RulesCalls

ApplyMatchReplaceRulesReturns ==
  Returns("applyMatchReplaceRules", applyMatchReplaceRules(probe.rules, probe.body))

RulesNext ==
  ApplyMatchReplaceRulesReturns

RulesSpec ==
  RulesInit /\ [][RulesNext]_<<vars, probe>>

-----------------------------------------------------------------------------
(* Properties                                                               *)

\* a step that empties the queue wholesale: clearTraffic, setPluginEnabled
\* in either direction, project change
BulkDrain ==
  ClearResume \/ Disable \/ EnableResume \/ ProjectChange

RowsOf(id) ==
  {i \in 1..Len(capturedTraffic) : capturedTraffic[i].id = id}

\* C1 (as claimed): in every reachable state the ledger holds at most the
\* cap of rows, whatever mix of intercepted inserts, manual inserts, ticks,
\* clears and enable/disable transitions has run.
C1_LedgerWithinCap ==
  Len(capturedTraffic) <= LedgerCap

\* C2 (as claimed): in every reachable state every identity in the pending
\* queue is the identity of a row of the ledger.
C2_PendingInLedger ==
  PendingSet \subseteq LedgerIds

TickRemoves(tick, fetched) ==
  LET id == Head(tick.pendingIds)
  IN  (IF fetched.kind = "notFound" THEN {id} ELSE {})
        \cup (IF Tail(tick.pendingIds) # <<>> THEN {}
              ELSE tick.updatedIds
                     \cup (IF /\ fetched.kind = "response"
                              /\ fetched.raw # <<>>
                              /\ id \in LedgerIds
                           THEN {id} ELSE {}))

Carries(id) ==
  \E i \in RowsOf(id) :
    /\ capturedTraffic[i].code = SourceResponse(id).code
    /\ capturedTraffic[i].length = LengthTable[id]
    /\ capturedTraffic[i].respRaw = SourceResponse(id).raw

\* C4 (as claimed): while the request store returns the response of every
\* request and the tick is scheduled fairly, an identity that is pending and
\* has a row in the ledger of the enabled plugin is eventually out of the
\* queue with a row that carries the fetched code, length and raw response,
\* unless the plugin is disabled or the ledger is emptied first.
C4_PendingEventuallyResolved ==
  \A id \in FairIds :
    (isPluginEnabled /\ id \in PendingSet /\ id \in LedgerIds)
      ~> \/ id \notin PendingSet /\ Carries(id)
         \/ ~isPluginEnabled
         \/ capturedTraffic = <<>>

\* C5: a step that inserts the row of an intercepted request puts the row at
\* the front, keeps the rows that were there in their order and drops rows
\* from the tail only, leaving the cap of rows at most.
C5_InsertTrimsTail ==
  [][\A id \in Ids :
       (\/ \E resp \in InterceptedResponses(id) : InterceptUnmodified(id, resp)
        \/ \E call \in intercepts : \E outcome \in DispatchOutcomes(id) :
             call.id = id /\ InterceptResume(call, outcome))
       => /\ Len(capturedTraffic') =
               IF Len(capturedTraffic) + 1 > LedgerCap THEN LedgerCap
               ELSE Len(capturedTraffic) + 1
          /\ capturedTraffic'[1].id = id
          /\ \A i \in 2..Len(capturedTraffic') :
               capturedTraffic'[i] = capturedTraffic[i - 1]]_vars

\* C5 witness: the ledger is full and the row of a queued identity, whose
\* callback has returned, has been dropped from its tail
C5_Witness ==
  /\ Len(capturedTraffic) = LedgerCap
  /\ intercepts = {}
  /\ \E id \in PendingSet : id \notin LedgerIds

\* the row a fetched response is written into, as the claim describes it
Reconciled(row, fetched) ==
  [row EXCEPT
     !.code = fetched.code,
     !.length = getResponseContentLength(fetched, fetched.raw),
     !.respRaw = fetched.raw,
     !.comparison =
        IF row.modifiedRespRaw # <<>>
        THEN compareResponses(fetched.code,
                              getResponseContentLength(fetched, fetched.raw),
                              row.modifiedCode, row.modifiedLength,
                              fetched.raw, row.modifiedRespRaw)
        ELSE row.comparison]

\* C6: when a fetch of a tick returns a non-empty raw response for an
\* identity that has a row in the ledger, the first such row gets the fetched
\* code, length and raw response, and the verdict of the comparator if its
\* modified raw response is non-empty; its other fields, its verdict otherwise
\* and every other row stay as they are.  Any other fetch leaves the ledger
\* as it is.
C6_ResolveFrame ==
  [][\A tick \in ticks : \A fetched \in FetchOutcomes(Head(tick.pendingIds)) :
       TickFetch(tick, fetched) =>
         LET id == Head(tick.pendingIds)
         IN  IF fetched.kind = "response" /\ fetched.raw # <<>> /\ id \in LedgerIds
             THEN LET k == CHOOSE i \in RowsOf(id) : \A j \in RowsOf(id) : i <= j
                  IN  /\ Len(capturedTraffic') = Len(capturedTraffic)
                      /\ capturedTraffic'[k] = Reconciled(capturedTraffic[k], fetched)
                      /\ \A i \in 1..Len(capturedTraffic) :
                           i # k => capturedTraffic'[i] = capturedTraffic[i]
             ELSE capturedTraffic' = capturedTraffic]_vars

\* C6 witness: a tick in progress has written the fetched response into two
\* rows: one whose verdict was recomputed against its modified response and
\* one that has no modified response and keeps the verdict unknown
C6_Witness ==
  /\ \E i \in 1..Len(capturedTraffic) :
       /\ capturedTraffic[i].respRaw # <<>>
       /\ capturedTraffic[i].modifiedRespRaw # <<>>
       /\ capturedTraffic[i].comparison \in {"same", "similar"}
       /\ capturedTraffic[i].id \in PendingSet
  /\ \E t \in ticks : \E i \in 1..Len(capturedTraffic) :
       /\ capturedTraffic[i].id \in t.updatedIds
       /\ capturedTraffic[i].respRaw # <<>>

\* C7 (as claimed): an intercepted request whose modified request has been
\* dispatched gets a row in the ledger with verdict unknown and no modified
\* field populated, even if the dispatch never returns.
C7_RowWhileDispatching ==
  \A id \in FairIds :
    (\E call \in intercepts : call.id = id)
      ~> \/ \E i \in RowsOf(id) :
              /\ capturedTraffic[i].comparison = "unknown"
              /\ capturedTraffic[i].modifiedRespRaw = <<>>
              /\ capturedTraffic[i].modifiedCode = 0
              /\ capturedTraffic[i].modifiedLength = 0
         \/ \A call \in intercepts : call.id # id

\* C8 (as claimed): a row has a verdict other than unknown only if its
\* original raw response and its modified raw response are both non-empty.
C8_VerdictNeedsBothSides ==
  \A i \in 1..Len(capturedTraffic) :
    capturedTraffic[i].comparison # "unknown" =>
      /\ capturedTraffic[i].respRaw # <<>>
      /\ capturedTraffic[i].modifiedRespRaw # <<>>

\* C9: while the plugin is disabled the pending queue is empty and no step
\* adds an identity to it, and the step that completes a clear leaves the
\* queue empty.
C9_DrainedWhenDisabled ==
  /\ [](~isPluginEnabled => pendingResponseQueue = <<>>)
  /\ [][~isPluginEnabled => PendingSet' \subseteq PendingSet]_vars
  /\ [][ClearResume => pendingResponseQueue' = <<>>]_vars

\* C9 witness: the plugin was disabled while an intercept callback that had
\* queued its identity was awaiting its dispatch, and the queue is empty
C9_Witness ==
  /\ ~isPluginEnabled
  /\ pendingResponseQueue = <<>>
  /\ \E call \in intercepts : call.respRaw = <<>>

\* C10: the plugin is enabled exactly when the timer handle is set, and the
\* timers the runtime runs are that one timer when the plugin is enabled and
\* none when it is disabled, whatever setPluginEnabled calls overlap.
C10_TimerIffEnabled ==
  /\ isPluginEnabled <=> responseUpdateInterval # NoTimer
  /\ activeTimers = IF isPluginEnabled THEN {responseUpdateInterval} ELSE {}

\* C10 witness: the plugin is enabled, with its one timer, while a second
\* setPluginEnabled(true) call is still awaiting its baseline query
C10_Witness ==
  /\ isPluginEnabled
  /\ enableCalls > 0
  /\ activeTimers = {responseUpdateInterval}

\* C11: a step that takes the plugin from enabled to disabled leaves the
\* ledger, its rows and their order as they are; it empties the recursion
\* guard and the pending queue, clears the timer handle and stops that timer,
\* and changes nothing else.
C11_DisableKeepsLedger ==
  [][(isPluginEnabled /\ ~isPluginEnabled') =>
        /\ capturedTraffic' = capturedTraffic
        /\ modifiedRequestIds' = {}
        /\ pendingResponseQueue' = <<>>
        /\ responseUpdateInterval' = NoTimer
        /\ activeTimers' = activeTimers \ {responseUpdateInterval}
        /\ UNCHANGED <<storedAuthHeaders, intercepts, histories, ticks,
                       enableCalls, clearCalls>>]_vars

\* C11 witness: the plugin is disabled, no timer runs, guard and queue are
\* empty, and the ledger still holds two rows, the older one captured without
\* a response while the plugin was enabled
C11_Witness ==
  /\ ~isPluginEnabled
  /\ activeTimers = {}
  /\ modifiedRequestIds = {}
  /\ pendingResponseQueue = <<>>
  /\ intercepts = {}
  /\ Len(capturedTraffic) = 2
  /\ capturedTraffic[2].respRaw = <<>>
  /\ capturedTraffic[1].id # capturedTraffic[2].id

C13_ManualRejectsGenerated ==
  [][\A id \in Ids :
       GeneratedTable[storedAuthHeaders][id] => ~HistoryDispatch(id)]_vars

\* C14: while the header set of a request exactly matches the configured auth
\* headers, the gate rejects it whatever the filters and the scope check
\* find, and the intercept callback can neither insert its row nor dispatch
\* for it: all it can do is return, which changes nothing.
C14_GateRejectsGenerated ==
  \A id \in Ids :
    (isPluginEnabled /\ GeneratedTable[storedAuthHeaders][id]) =>
      /\ \A gate \in Gates : ~Accepts(id, gate)
      /\ ENABLED InterceptRejected(id)
      /\ \A resp \in InterceptedResponses(id) :
           /\ ~ENABLED InterceptUnmodified(id, resp)
           /\ ~ENABLED InterceptDispatch(id, resp)

\* C14 witness: the plugin is enabled, the configured auth headers are those
\* of request 1, and the ledger holds the row request 1 got under other auth
\* headers
C14_Witness ==
  /\ isPluginEnabled
  /\ GeneratedTable[storedAuthHeaders][1]
  /\ capturedTraffic # <<>>
  /\ capturedTraffic[1].id = 1
  /\ capturedTraffic[1].modifiedRespRaw # <<>>

RECURSIVE GlobMatches(_, _)
\* the glob reading of a pattern against a whole hostname
GlobMatches(hostname, pattern) ==
  IF pattern = <<>> THEN hostname = <<>>
  ELSE IF Head(pattern) = "*"
       THEN \/ GlobMatches(hostname, Tail(pattern))
            \/ hostname # <<>> /\ GlobMatches(Tail(hostname), pattern)
  ELSE IF Head(pattern) = "?"
       THEN hostname # <<>> /\ GlobMatches(Tail(hostname), Tail(pattern))
  ELSE /\ hostname # <<>>
       /\ Head(hostname) = Head(pattern)
       /\ GlobMatches(Tail(hostname), Tail(pattern))

\* C16: matchesPattern returns, for every hostname and pattern, whether the
\* pattern read as a glob matches the whole hostname: * any run, ? exactly
\* one character, every other character only itself.
C16_GlobAnchored ==
  (probe.op = "matchesPattern" /\ probe.phase = "returned")
    => /\ ~probe.result.throws
       /\ probe.result.value = GlobMatches(probe.hostname, probe.pattern)

\* a hostname matches some glob of a list (patterns lower-cased as the code
\* lower-cases them)
GlobListMatches(hostname, list) ==
  \E i \in 1..Len(list) : GlobMatches(hostname, ToLowerCase(list[i]))

\* C15: with an active scope a URL is accepted iff its hostname matches no
\* denylist glob and the allowlist is empty or some allowlist glob matches;
\* with no active scope every URL is accepted.
C15_ScopeDecision ==
  (probe.op = "isUrlInScope" /\ probe.phase = "returned" /\ ~URLHostname(probe.url).throws)
    => probe.result =
         IF probe.scope.kind = "undefined" THEN TRUE
         ELSE /\ ~GlobListMatches(URLHostname(probe.url).hostname, probe.scope.denylist)
              /\ \/ probe.scope.allowlist = <<>>
                 \/ GlobListMatches(URLHostname(probe.url).hostname, probe.scope.allowlist)

\* C17: compareResponses returns same, different or similar for every pair
\* of codes, lengths and raw texts, the empty text included; never unknown.
C17_ComparatorTotal ==
  (probe.op = "compareResponses" /\ probe.phase = "returned")
    => probe.result \in {"same", "different", "similar"}

C17_Witness ==
  /\ probe.op = "compareResponses"
  /\ probe.phase = "returned"
  /\ probe.originalRespRaw = <<>>
  /\ probe.modifiedRespRaw = <<>>
  /\ probe.originalCode # probe.modifiedCode

\* 0-based index of the blank line that ends the header section (a line that
\* is empty or holds white space only), -1 when there is none
BlankLineIndex(lines) ==
  LET hits == {i \in 1..Len(lines) : Trim(lines[i]) = <<>>}
  IN  IF hits = {} THEN -1
      ELSE (CHOOSE i \in hits : \A j \in hits : i <= j) - 1

\* the lines before the blank line
HeaderSection(raw) ==
  LET lines == SplitLines(raw)
  IN  IF BlankLineIndex(lines) = -1 THEN lines
      ELSE SubSeq(lines, 1, BlankLineIndex(lines))

\* the text after the blank line
BodyPortion(raw) ==
  LET lines == SplitLines(raw)
  IN  IF raw = <<>> \/ BlankLineIndex(lines) = -1 THEN <<>>
      ELSE Join(SubSeq(lines, BlankLineIndex(lines) + 2, Len(lines)), CRLF)

NormalizedBody(raw) ==
  Trim(CollapseWhiteSpace(BodyPortion(raw)))

\* C18: with equal codes the verdict is different when the lengths differ,
\* and otherwise same when the white-space-normalized texts after the blank
\* line are equal and similar when they are not.
C18_EqualCodes ==
  (probe.op = "compareResponses" /\ probe.phase = "returned"
     /\ probe.originalCode = probe.modifiedCode)
    => probe.result =
         IF probe.originalLength # probe.modifiedLength THEN "different"
         ELSE IF NormalizedBody(probe.originalRespRaw) = NormalizedBody(probe.modifiedRespRaw)
              THEN "same"
              ELSE "similar"

\* the Location header a raw response carries: the first line of its header
\* section whose name is location in any case, with the value trimmed
CarriedLocation(raw) ==
  LET lines == HeaderSection(raw)
      hits  == {i \in 1..Len(lines) : StartsWith(ToLowerCase(Trim(lines[i])), LocationPrefix)}
  IN  IF raw = <<>> \/ hits = {} THEN [found |-> FALSE, value |-> <<>>]
      ELSE LET i == CHOOSE k \in hits : \A j \in hits : k <= j
           IN  [found |-> TRUE, value |-> Trim(SubstringFrom(Trim(lines[i]), Len(LocationPrefix)))]

InRedirectRange(code) ==
  code >= 300 /\ code < 400

\* C19: with different codes the verdict is same exactly when both codes are
\* in [300,400) and both raw responses carry a Location header with the same
\* value, and different in every other case.
C19_DifferentCodes ==
  (probe.op = "compareResponses" /\ probe.phase = "returned"
     /\ probe.originalCode # probe.modifiedCode)
    => probe.result =
         IF /\ InRedirectRange(probe.originalCode)
            /\ InRedirectRange(probe.modifiedCode)
            /\ CarriedLocation(probe.originalRespRaw).found
            /\ CarriedLocation(probe.modifiedRespRaw).found
            /\ CarriedLocation(probe.originalRespRaw).value = CarriedLocation(probe.modifiedRespRaw).value
         THEN "same"
         ELSE "different"

\* the Content-Length header of a response: the header object's when the
\* response object is at hand, else the first content-length line of the
\* raw header section; nan when absent or not an integer
CarriedContentLength(resp, raw) ==
  LET lines == HeaderSection(raw)
      pre   == ContentLengthName \o <<":">>
      value(i) == ParseInt(SubstringFrom(lines[i], Len(pre)))
      hits  == {i \in 1..Len(lines) :
                  StartsWith(ToLowerCase(lines[i]), pre) /\ ~value(i).nan}
  IN  IF resp.kind = "response" /\ ~HeaderContentLength(resp.headers).nan
      THEN HeaderContentLength(resp.headers)
      ELSE IF hits = {} THEN [nan |-> TRUE, val |-> 0]
      ELSE value(CHOOSE k \in hits : \A j \in hits : k <= j)

\* C20: the content length is 0 for an empty raw text, else the value of the
\* Content-Length header when there is one that parses, else the length of
\* the text after the blank line.
C20_ContentLength ==
  (probe.op = "getResponseContentLength" /\ probe.phase = "returned")
    => probe.result =
         IF probe.respRaw = <<>> THEN 0
         ELSE IF ~CarriedContentLength(probe.resp, probe.respRaw).nan
              THEN CarriedContentLength(probe.resp, probe.respRaw).val
              ELSE Len(BodyPortion(probe.respRaw))

RECURSIVE HeaderPairs(_)
\* the name and value of every line that has a colon, in order and with
\* repeated names kept
HeaderPairs(lines) ==
  IF lines = <<>> THEN <<>>
  ELSE LET line == Trim(Head(lines))
           c    == IndexOf(line, ":")
       IN  IF c > 0
           THEN <<[name  |-> Trim(Substring(line, 0, c)),
                   value |-> Trim(SubstringFrom(line, c + 1))]>> \o HeaderPairs(Tail(lines))
           ELSE HeaderPairs(Tail(lines))

\* 1-based index of the empty line that ends the headers of a raw message,
\* one past the last line when there is none
WireHeaderEnd(raw) ==
  LET lines == SplitLines(raw)
      hits  == {i \in 2..Len(lines) : Trim(lines[i]) = <<>>}
  IN  IF hits = {} THEN Len(lines) + 1
      ELSE CHOOSE i \in hits : \A j \in hits : i <= j

\* the ordered header list of a raw message as it goes over the wire
WireHeaders(raw) ==
  HeaderPairs(SubSeq(SplitLines(raw), 2, WireHeaderEnd(raw) - 1))

\* the body of a raw message
WireBody(raw) ==
  Join(SubSeq(SplitLines(raw), WireHeaderEnd(raw) + 1, Len(SplitLines(raw))), <<"\n">>)

\* the auth header set a configuration text stands for
AuthSet(authText) ==
  HeaderPairs(Split(authText, "\n"))

SameName(a, b) ==
  ToLowerCase(a) = ToLowerCase(b)

\* no two headers of the list share a name, letter case aside
DistinctNames(headers) ==
  \A i, j \in 1..Len(headers) : SameName(headers[i].name, headers[j].name) => i = j

\* the call in probe has returned a rebuilt request
Rebuilt(op) ==
  /\ probe.op = op
  /\ probe.phase = "returned"
  /\ CASE op = "modifyAndResendRequest" -> probe.result.modifiedReqRaw # <<>>
       [] op = "applyHeadersToReplay" -> probe.result.kind = "Ok"
       [] OTHER -> Trim(probe.auth) # <<>>

\* the text of the rebuilt request
RebuiltText ==
  IF probe.op = "applyHeadersToReplayText" THEN probe.result.text
  ELSE probe.result.modifiedReqRaw

\* C21: for every name of the auth set the modified request has exactly one
\* header with that name, letter case aside, and it is the auth header:
\* auth value, auth spelling of the name.
C21_AuthHeadersOnce ==
  ((Rebuilt("modifyAndResendRequest") \/ Rebuilt("applyHeadersToReplay"))
     /\ DistinctNames(AuthSet(probe.auth)))
    => \A i \in 1..Len(AuthSet(probe.auth)) :
         LET hits == {j \in 1..Len(WireHeaders(RebuiltText)) :
                        SameName(WireHeaders(RebuiltText)[j].name, AuthSet(probe.auth)[i].name)}
         IN  /\ Cardinality(hits) = 1
             /\ \A j \in hits : WireHeaders(RebuiltText)[j] = AuthSet(probe.auth)[i]

\* the auth header that names h, letter case aside; <<>> when none does
NamedBy(auth, h) ==
  SelectSeq(auth, LAMBDA a : SameName(a.name, h.name))

\* every original header is found at its own position in the rebuilt list:
\* as it was when the auth set does not name it, with the auth value when it
\* does
KeepsPlaces(orig, auth, mod) ==
  /\ Len(mod) >= Len(orig)
  /\ \A i \in 1..Len(orig) :
       IF NamedBy(auth, orig[i]) = <<>>
       THEN mod[i] = orig[i]
       ELSE /\ SameName(mod[i].name, orig[i].name)
            /\ mod[i].value = NamedBy(auth, orig[i])[1].value

\* C22: the original headers that the auth set does not name keep their
\* values and their order, and a header that an auth header overwrites stays
\* where the original header was.
C22_OthersKeepPlace ==
  ((Rebuilt("modifyAndResendRequest") \/ Rebuilt("applyHeadersToReplayText"))
     /\ DistinctNames(AuthSet(probe.auth))
     /\ DistinctNames(WireHeaders(probe.req)))
    => KeepsPlaces(WireHeaders(probe.req), AuthSet(probe.auth), WireHeaders(RebuiltText))

\* the merged header set of a stored request, that is its own headers and the
\* configured auth headers, has a Host header, letter case aside
MergedHasHost(id) ==
  \E h \in Range(WireHeaders(RequestTable[id].raw)) \cup Range(AuthSet(storedAuthHeaders)) :
    SameName(h.name, HostKey)

\* C23: building the modified request fails for want of a Host header
\* exactly when the merged header set has no Host header, letter case aside,
\* and a failed build dispatches nothing and inserts no record.
C23_NoHostError ==
  [][\A id \in HostIds :
       /\ HistoryNotSent(id) =>
            /\ ~MergedHasHost(id)
            /\ UNCHANGED <<capturedTraffic, histories>>
       /\ HistoryDispatch(id) => MergedHasHost(id)]_vars

RECURSIVE LiteralReplace(_, _, _, _)
\* s from the 0-based index i on, with every occurrence of match, leftmost
\* first, replaced by the text of replace as it stands
LiteralReplace(s, i, match, replace) ==
  IF i >= Len(s) THEN <<>>
  ELSE IF StartsWith(SubstringFrom(s, i), match)
       THEN replace \o LiteralReplace(s, i + Len(match), match, replace)
       ELSE <<s[i + 1]>> \o LiteralReplace(s, i + 1, match, replace)

RECURSIVE LiteralFold(_, _)
\* the rules applied one after the other, each to what the ones before it
\* left; a rule that is disabled or has no match text is passed over
LiteralFold(rules, body) ==
  IF rules = <<>> THEN body
  ELSE LiteralFold(Tail(rules),
                   IF Head(rules).enabled /\ Head(rules).match # <<>>
                   THEN LiteralReplace(body, 0, Head(rules).match, Head(rules).replace)
                   ELSE body)

\* C24: applyMatchReplaceRules returns the fold of the stored rules over the
\* body in stored order, passing over disabled rules and rules with empty
\* match text, each rule replacing every literal occurrence of its match
\* text by its replacement text.
C24_RulesFold ==
  (probe.op = "applyMatchReplaceRules" /\ probe.phase = "returned")
    => probe.result = LiteralFold(probe.rules, probe.body)

\* the request line and the header list of a raw message
WireHead(raw) ==
  <<SplitLines(raw)[1], WireHeaders(raw)>>

\* C25: the body of the modified request that is dispatched for a repeated
\* request is the original body with the enabled rules applied in order,
\* and the rules leave the request line and the header lines as they are.
C25_RulesOnBody ==
  /\ (Rebuilt("modifyAndResendRequest") /\ probe.result.sends)
       => /\ probe.result.spec.body = applyMatchReplaceRules(probe.rules, WireBody(probe.req))
          /\ WireBody(probe.result.modifiedReqRaw)
               = applyMatchReplaceRules(probe.rules, WireBody(probe.req))
  /\ Rebuilt("applyHeadersToReplayText")
       => /\ WireBody(probe.result.text) = applyMatchReplaceRules(probe.rules, WireBody(probe.req))
          /\ WireHead(probe.result.text)
               = WireHead(applyHeadersToReplayText(probe.req, probe.auth, <<>>))

\* the method and the path of a raw request
RequestTarget(raw) ==
  LET parts == Split(Trim(SplitLines(raw)[1]), " ")
  IN  <<parts[1], parts[2]>>

NotHost(h) ==
  ~SameName(h.name, HostKey)

EndsWith(s, t) ==
  /\ Len(s) >= Len(t)
  /\ SubSeq(s, Len(s) - Len(t) + 1, Len(s)) = t

\* C26: a well-formed raw request that is decoded and encoded again, with an
\* empty auth set and no rules, has the same method, path, ordered header
\* list and body as before; repeated header names and either line end are
\* allowed.  sendToReplay encodes into a request spec, where the Host header
\* is carried by the URL and a bodiless method has no body.
C26_RoundTrip ==
  /\ (Rebuilt("modifyAndResendRequest") /\ AuthSet(probe.auth) = <<>> /\ probe.rules = <<>>)
       => /\ RequestTarget(probe.result.modifiedReqRaw) = RequestTarget(probe.req)
          /\ WireHeaders(probe.result.modifiedReqRaw) = WireHeaders(probe.req)
          /\ WireBody(probe.result.modifiedReqRaw) = WireBody(probe.req)
  /\ (probe.op = "sendToReplay" /\ probe.phase = "returned" /\ probe.result.kind = "Ok")
       => /\ probe.result.spec.method = RequestTarget(probe.req)[1]
          /\ EndsWith(probe.result.spec.url, RequestTarget(probe.req)[2])
          /\ probe.result.spec.headers = SelectSeq(WireHeaders(probe.req), NotHost)
          /\ ToUpperCase(probe.result.spec.method) \notin BodilessMethods
               => probe.result.spec.body = WireBody(probe.req)

\* C27: for the methods GET, HEAD, DELETE and OPTIONS, in any letter case,
\* the request that goes to the dispatcher has no body, when a request is
\* repeated with modified headers and when it is sent to replay.
C27_BodilessMethods ==
  /\ (Rebuilt("modifyAndResendRequest") /\ probe.result.sends
        /\ ToUpperCase(probe.result.spec.method) \in BodilessMethods)
       => probe.result.spec.body = <<>>
  /\ (probe.op = "sendToReplay" /\ probe.phase = "returned" /\ probe.result.kind = "Ok"
        /\ ToUpperCase(probe.result.spec.method) \in BodilessMethods)
       => probe.result.spec.body = <<>>

\* the ways a dispatch ends without a response: sdk.requests.send throws, or
\* its result has no response
FailedOutcomes ==
  {[kind |-> "throw"], [kind |-> "none"]}

\* the row at the head of the ledger is the record of a failed dispatch of
\* call: nothing on the modified side, the original side as it was captured
FailedRecord(row, call) ==
  /\ row.comparison = "unknown"
  /\ row.modifiedCode = 0
  /\ row.modifiedLength = 0
  /\ row.modifiedRespRaw = <<>>
  /\ row.id = call.id
  /\ row.method = RequestTable[call.id].method
  /\ row.hostname = RequestTable[call.id].hostname
  /\ row.path = RequestTable[call.id].path
  /\ row.reqRaw = RequestTable[call.id].raw
  /\ row.code = call.code
  /\ row.length = call.length
  /\ row.respRaw = call.respRaw

\* C28: when the dispatch of the modified request throws or brings no
\* response, the record inserted for the request has verdict unknown,
\* modified code 0, modified length 0 and an empty modified raw response, and
\* its original method, host, path, code, length, raw request and raw
\* response are the captured ones.
C28_FailedDispatchRecord ==
  [][\A outcome \in FailedOutcomes :
       /\ \A call \in intercepts :
            InterceptResume(call, outcome) => FailedRecord(capturedTraffic'[1], call)
       /\ \A call \in histories :
            HistoryResume(call, outcome) => FailedRecord(capturedTraffic'[1], call)]_vars

\* a record of a dispatch that brought no response is in the ledger
C28_Witness ==
  \E i \in 1..Len(capturedTraffic) :
    /\ capturedTraffic[i].comparison = "unknown"
    /\ capturedTraffic[i].modifiedReqRaw # <<>>
    /\ capturedTraffic[i].modifiedRespRaw = <<>>
    /\ capturedTraffic[i].respRaw # <<>>

\* C29: when the fetch for one pending identity fails during a tick, the
\* tick goes on with every identity it has left, the failing identity stays
\* in the pending set, and the ledger, its record included, is unchanged.
C29_TickContainsFailure ==
  [][\A tick \in ticks :
       TickFetch(tick, [kind |-> "throw"]) =>
         /\ capturedTraffic' = capturedTraffic
         /\ Head(tick.pendingIds) \in PendingSet => Head(tick.pendingIds) \in PendingSet'
         /\ Tail(tick.pendingIds) # <<>> =>
              [pendingIds |-> Tail(tick.pendingIds), updatedIds |-> tick.updatedIds] \in ticks']_vars

\* a tick has gone past an identity that is still pending and unresolved,
\* and has identities left
C29_Witness ==
  \E tick \in ticks : \E id \in PendingSet :
    /\ tick.pendingIds # <<>>
    /\ id \notin Range(tick.pendingIds)
    /\ id \notin tick.updatedIds
    /\ \A other \in ticks : other = tick
    /\ intercepts = {}
    /\ FindIndex(capturedTraffic, id) # 0
    /\ capturedTraffic[FindIndex(capturedTraffic, id)].respRaw = <<>>

\* C30: a tick sends one tableChanged event, with the ledger as it is when
\* the tick ends, if it has resolved at least one identity, and none if it
\* has resolved none; it sends nothing before it ends, however many
\* identities it resolves.
C30_OneNotificationPerTick ==
  [][\A tick \in ticks :
       (\E fetched \in FetchOutcomes(Head(tick.pendingIds)) : TickFetch(tick, fetched))
         => \E fetched \in FetchOutcomes(Head(tick.pendingIds)) :
              LET resolves == Resolves(capturedTraffic, Head(tick.pendingIds), fetched)
                  ends     == Tail(tick.pendingIds) = <<>>
              IN  /\ TickFetch(tick, fetched)
                  /\ IF ends /\ (resolves \/ tick.updatedIds # {})
                     THEN tableChanged' =
                            Append(tableChanged,
                                   Notification("processPendingResponses", capturedTraffic'))
                     ELSE tableChanged' = tableChanged]_<<vars, tableChanged>>

\* the event of a tick that resolved two identities is on its way
C30_Witness ==
  /\ ticks = {}
  /\ tableChanged # <<>>
  /\ tableChanged[1].from = "processPendingResponses"
  /\ tableChanged[1].traffic = capturedTraffic
  /\ Len(capturedTraffic) >= 2
  /\ \A i \in 1..Len(capturedTraffic) : capturedTraffic[i].respRaw # <<>>

\* C31: when clearTraffic returns Ok the ledger and the pending set are
\* empty and one tableChanged event with the empty ledger has been sent;
\* when it returns Error the ledger and the pending set are as before and
\* nothing has been sent.
C31_ClearOutcome ==
  [][(ClearResume \/ ClearFail) =>
       \/ /\ ClearResume
          /\ capturedTraffic' = <<>>
          /\ PendingSet' = {}
          /\ tableChanged' = Append(tableChanged, Notification("clearTraffic", <<>>))
       \/ /\ ClearFail
          /\ UNCHANGED <<capturedTraffic, pendingResponseQueue, tableChanged>>]_<<vars, tableChanged>>

\* clearTraffic has returned Ok while a tick was under way, so with a
\* record in the ledger and its identity pending, and its event is on its way
C31_Witness ==
  /\ clearCalls = 0
  /\ ticks # {}
  /\ capturedTraffic = <<>>
  /\ pendingResponseQueue = <<>>
  /\ isPluginEnabled
  /\ tableChanged = <<Notification("clearTraffic", <<>>)>>

\* C32: no two records of the ledger have the same identity, whatever was
\* intercepted, processed by hand (a request that is already in the ledger
\* included) or reconciled.
C32_OneRecordPerIdentity ==
  \A i, j \in 1..Len(capturedTraffic) :
    capturedTraffic[i].id = capturedTraffic[j].id => i = j

\* C33: at most one execution of processPendingResponses is under way at any
\* time, so that no pending identity is fetched by two executions at once.
C33_OneTickAtATime ==
  Cardinality(ticks) <= 1

\* C34: the ledger is newest first in the order of interception: a request
\* intercepted later is ahead of one intercepted earlier, whichever of
\* their dispatches completes first.
C34_NewestFirst ==
  \A i, j \in 1..Len(capturedTraffic) :
    i < j => capturedTraffic[i].id > capturedTraffic[j].id

\* C35: once the plugin has been disabled or the project has changed, an
\* intercept callback adds no record to the ledger, the callbacks included
\* that were awaiting their dispatch at that moment: a callback that adds
\* its record finds the plugin enabled and its identity still in the guard
\* set that both transitions empty.
C35_NoRecordAfterReset ==
  [][\A call \in intercepts : \A outcome \in DispatchOutcomes(call.id) :
       InterceptResume(call, outcome) =>
         /\ isPluginEnabled
         /\ call.id \in modifiedRequestIds]_vars

\* C36: when every setPluginEnabled call that was issued has returned, the
\* plugin is enabled or disabled as the call issued last asked, that is as
\* the switch stands, however the calls overlapped.
C36_LastCallWins ==
  enableCalls = 0 => isPluginEnabled = isEnabled

\* C37: while the plugin stays enabled, with no enable or disable transition
\* and no project change, the intercept path dispatches at most once for a
\* request identity: it dispatches only for an identity that is not in the
\* guard set, puts it there, and the set loses nothing meanwhile.
C37_OneDispatchPerIdentity ==
  [][/\ \A id \in Ids : \A resp \in InterceptedResponses(id) :
          InterceptDispatch(id, resp) =>
            /\ id \notin modifiedRequestIds
            /\ id \in modifiedRequestIds'
     /\ ~(Disable \/ EnableResume \/ ProjectChange)
          => modifiedRequestIds \subseteq modifiedRequestIds']_vars

\* an identity that was dispatched for is intercepted again while the plugin
\* is enabled and is recorded without a dispatch
C37_Witness ==
  /\ isPluginEnabled
  /\ Trim(storedAuthHeaders) # <<>>
  /\ intercepts = {}
  /\ Len(capturedTraffic) >= 2
  /\ capturedTraffic[1].id = capturedTraffic[2].id
  /\ capturedTraffic[1].id \in modifiedRequestIds
  /\ capturedTraffic[1].modifiedReqRaw = <<>>
  /\ capturedTraffic[2].modifiedReqRaw # <<>>

\* C38: whenever the identifier of the selected scope is empty, white space
\* aside, no scope is active: the scope structure is undefined and
\* isUrlInScope accepts every URL.
C38_NoScopeAllowsAll ==
  Trim(selectedScope) = <<>> =>
    /\ selectedScopeStructure = NoScope
    /\ \A url \in ScopeUrls : isUrlInScope(selectedScopeStructure, url)

\* C39: compareResponses is symmetric: exchanging the original and the
\* modified code, length and raw text gives the same verdict.
C39_ComparatorSymmetric ==
  (probe.op = "compareResponses" /\ probe.phase = "returned")
    => probe.result = compareResponses(probe.modifiedCode, probe.modifiedLength,
                                       probe.originalCode, probe.originalLength,
                                       probe.modifiedRespRaw, probe.originalRespRaw)

C39_Witness ==
  /\ probe.op = "compareResponses"
  /\ probe.phase = "returned"
  /\ probe.originalCode = 300
  /\ probe.modifiedCode = 399
  /\ probe.originalRespRaw # probe.modifiedRespRaw
  /\ probe.result = "same"

=============================================================================
